---- MODULE Spec2Model ----
(***************************************************************************)
(* A model of the watch execution engine of swatch: the Loadable registry  *)
(* and its content hash (src/src/loadable.py), the frame-scoped Context    *)
(* (src/src/context.py), the Cache with its entries, blob files and        *)
(* archive (src/src/cache.py), CacheMatch (src/src/match.py),              *)
(* Selector.execute and the cache selectors (src/src/selector.py) and the  *)
(* recursive evaluator Watch.process / Watch.execute with its group, once, *)
(* loop, conditional and template compositors (src/src/watch.py).          *)
(*                                                                         *)
(* Python values are tagged records (VS, VI, VB, VNone, VL, VD, VY for     *)
(* bytes); a dict is                                                       *)
(* the sequence of its (key, value) pairs in insertion order.  sha256 is   *)
(* taken to be collision free: a hash is modelled by the byte string that  *)
(* hash_args feeds to it.                                                  *)
(***************************************************************************)
EXTENDS Integers, Sequences, FiniteSets, TLC

(***************************************************************************)
(* Python values                                                           *)
(***************************************************************************)
VS(s) == [t |-> "str", s |-> s]
VI(i) == [t |-> "int", i |-> i]
VB(b) == [t |-> "bool", b |-> b]
VNone == [t |-> "none"]
VL(l) == [t |-> "list", l |-> l]
VD(d) == [t |-> "dict", d |-> d]
\* a bytes object, by its text
VY(s) == [t |-> "bytes", s |-> s]

\* ", ".join(ss)
RECURSIVE CommaJoin(_)
CommaJoin(ss) ==
  IF Len(ss) = 0 THEN ""
  ELSE IF Len(ss) = 1 THEN ss[1]
  ELSE ss[1] \o ", " \o CommaJoin(Tail(ss))

\* the text of a byte string as repr shows it: the line feed that ends the
\* output of a command is escaped, other text of the model stands as it is
Escaped(s) ==
  CASE s = "hello\n" -> "hello\\n"
    [] s = "world\n" -> "world\\n"
    [] OTHER -> s

\* repr(arg)
RECURSIVE PyRepr(_)
PyRepr(v) ==
  CASE v.t = "str" -> "'" \o Escaped(v.s) \o "'"
    [] v.t = "int" -> ToString(v.i)
    [] v.t = "bool" -> (IF v.b THEN "True" ELSE "False")
    [] v.t = "none" -> "None"
    [] v.t = "bytes" -> "b'" \o Escaped(v.s) \o "'"
    [] v.t = "list" -> "[" \o CommaJoin([i \in 1..Len(v.l) |-> PyRepr(v.l[i])]) \o "]"
    [] v.t = "dict" ->
         "{" \o CommaJoin([i \in 1..Len(v.d) |->
                             "'" \o v.d[i][1] \o "': " \o PyRepr(v.d[i][2])]) \o "}"
    [] v.t = "item" -> "<SelectorItem value=" \o PyRepr(v.value) \o ", vars={}>"

\* str(arg)
PyStr(v) ==
  CASE v.t = "str" -> v.s
    [] v.t = "int" -> ToString(v.i)
    [] v.t = "bool" -> (IF v.b THEN "True" ELSE "False")
    [] v.t = "none" -> "None"
    [] OTHER -> PyRepr(v)

\* bool(arg)
PyBool(v) ==
  CASE v.t = "str" -> v.s # ""
    [] v.t = "int" -> v.i # 0
    [] v.t = "bool" -> v.b
    [] v.t = "none" -> FALSE
    [] v.t = "bytes" -> v.s # ""
    [] v.t = "list" -> Len(v.l) > 0
    [] v.t = "dict" -> Len(v.d) > 0

\* Bind(v, F) is F(v): v is the value of a statement of the code and F
\* the statements that follow it
Bind(v, F(_)) == F(v)

RECURSIVE Concat(_)
Concat(ss) == IF Len(ss) = 0 THEN "" ELSE Head(ss) \o Concat(Tail(ss))

\* the concatenation of a sequence of sequences
RECURSIVE Concat2(_)
Concat2(ss) == IF Len(ss) = 0 THEN <<>> ELSE Head(ss) \o Concat2(Tail(ss))

\* dict operations on the pair sequence of a VD
DictKeys(d) == [i \in 1..Len(d) |-> d[i][1]]
DictHas(d, k) == \E i \in 1..Len(d) : d[i][1] = k
DictIdx(d, k) == CHOOSE i \in 1..Len(d) : d[i][1] = k
DictGet(d, k) == IF DictHas(d, k) THEN d[DictIdx(d, k)][2] ELSE VNone
DictDel(d, k) == SelectSeq(d, LAMBDA p : p[1] # k)
DictSet(d, k, v) ==
  IF DictHas(d, k) THEN [d EXCEPT ![DictIdx(d, k)] = <<k, v>>]
  ELSE Append(d, <<k, v>>)
RECURSIVE DictMerge(_, _)
DictMerge(a, b) ==
  IF Len(b) = 0 THEN a ELSE DictMerge(DictSet(a, Head(b)[1], Head(b)[2]), Tail(b))

(***************************************************************************)
(* loadable.py: hash_args                                                  *)
(***************************************************************************)
RECURSIVE hash_args(_, _)
\* hash_args that passes no skip_keys on to the values of a list or dict
hash_args_shallow(arg, skip_keys) ==
  CASE arg.t = "list" ->
         "[" \o Concat([i \in 1..Len(arg.l) |-> hash_args(arg.l[i], {}) \o ","]) \o "]"
    [] arg.t = "dict" ->
         LET kept == SelectSeq(arg.d, LAMBDA p : p[1] \notin skip_keys)
         IN "{" \o Concat([i \in 1..Len(kept) |->
                             hash_args(VS(kept[i][1]), {}) \o ":"
                             \o hash_args(kept[i][2], {}) \o ","]) \o "}"
    [] OTHER -> "s" \o PyStr(arg)

\* loadable.hash_args: the bytes fed to the sha256 object
hash_args(arg, skip_keys) ==
  CASE arg.t = "list" ->
         "[" \o Concat([i \in 1..Len(arg.l) |->
                          hash_args(arg.l[i], skip_keys) \o ","]) \o "]"
    [] arg.t = "dict" ->
         LET kept == SelectSeq(arg.d, LAMBDA p : p[1] \notin skip_keys)
         IN "{" \o Concat([i \in 1..Len(kept) |->
                             hash_args(VS(kept[i][1]), skip_keys) \o ":"
                             \o hash_args(kept[i][2], skip_keys) \o ","]) \o "}"
    [] OTHER -> "s" \o PyStr(arg)

(***************************************************************************)
(* loadable.py: the class registry (Loadable.prepare) and Loadable.load    *)
(***************************************************************************)
KeySpec(k, c, d) == [k |-> k, c |-> c, d |-> d]

\* Watch.keys, DataWatch.keys, MultipleWatch.keys, CmdWatch.keys: the
\* coercer of each key by name and its default (a callable default called)
WatchKeys ==
  << KeySpec("comment", "str", VNone),
     KeySpec("before", "list_of_dict", VL(<<>>)),
     KeySpec("after", "list_of_dict", VL(<<>>)),
     KeySpec("action_data", "dict", VNone),
     KeySpec("actions", "list", VL(<<>>)) >>

DataWatchKeys ==
  << KeySpec("store", "str", VNone),
     KeySpec("selectors", "list_of_dict", VL(<<>>)),
     KeySpec("match", "match_lambda", VNone) >>

MultipleWatchKeys == << KeySpec("operator", "operator_choice", VS("any")) >>

CmdWatchKeys ==
  << KeySpec("shell", "str", VS("/bin/sh")),
     KeySpec("sudo", "bool", VB(FALSE)),
     KeySpec("env", "dict", VD(<<>>)),
     KeySpec("cwd", "str", VS(".")),
     KeySpec("timeout", "one_of", VI(60)),
     KeySpec("return_code", "none_or_int", VNone),
     KeySpec("output", "output_choice", VS("stdout")) >>

\* Selector.keys
SelectorKeys ==
  << KeySpec("value", "none_or_str", VNone),
     KeySpec("input", "none_or_str", VNone),
     KeySpec("store", "none_or_str", VNone) >>

LogActionKeys ==
  << KeySpec("level", "level_choice", VS("info")),
     KeySpec("error_level", "error_level_choice", VS("error")) >>

\* _classes: the registered subclasses of each Loadable family that the
\* model covers (CountWatch, StaticWatch, ThrowWatch, TrueMatch and
\* FalseMatch are the subclasses the test suite registers)
Classes(family) ==
  CASE family = "watch" -> {"group", "once", "loop", "conditional", "template", "cmd",
                            "true", "range", "count", "static", "throw"}
    [] family = "match" -> {"cache", "none", "true", "false"}
    [] family = "selector" -> {"slice", "join", "new", "since", "sub"}
    [] family = "action" -> {"log"}

\* subcls.loadable_keys: {loadable_name: (object, None)} merged with the
\* `keys` of every class of the MRO, base first; a key keeps the position
\* of its first insertion and takes the last value
LoadableKeys(family, cls) ==
  CASE family = "watch" /\ cls = "group" ->
         <<KeySpec("group", "list", VL(<<>>))>> \o WatchKeys \o MultipleWatchKeys
    [] family = "watch" /\ cls = "once" ->
         <<KeySpec("once", "dict", VD(<<>>))>> \o WatchKeys \o MultipleWatchKeys
         \o <<KeySpec("key", "none_or_str", VNone)>>
    [] family = "watch" /\ cls = "loop" ->
         <<KeySpec("loop", "dict", VD(<<>>))>> \o WatchKeys
         \o <<KeySpec("operator", "str", VS("or"))>>
         \o <<KeySpec("do", "dict", VD(<<>>)), KeySpec("as", "str", VS("loop"))>>
    [] family = "watch" /\ cls = "conditional" ->
         <<KeySpec("conditional", "list_of_dict", VL(<<>>))>> \o WatchKeys
         \o <<KeySpec("operator", "str", VS("and"))>>
         \o <<KeySpec("then", "dict", VD(<<>>)), KeySpec("else", "none_or_dict", VNone)>>
    [] family = "watch" /\ cls = "template" ->
         <<KeySpec("template", "list_of_str", VL(<<>>))>> \o WatchKeys \o MultipleWatchKeys
         \o <<KeySpec("requires", "list", VL(<<>>)), KeySpec("variables", "dict", VD(<<>>)),
              KeySpec("body", "body_lambda", VD(<<>>))>>
    [] family = "watch" /\ cls = "range" ->
         <<KeySpec("range", "object", VNone)>> \o WatchKeys \o DataWatchKeys
         \o <<KeySpec("from", "int", VI(0)), KeySpec("to", "int", VI(0)),
              KeySpec("step", "int", VI(1))>>
    [] family = "watch" /\ cls = "cmd" ->
         <<KeySpec("cmd", "object", VNone)>> \o WatchKeys \o DataWatchKeys \o CmdWatchKeys
    [] family = "watch" /\ cls = "true" ->
         <<KeySpec("true", "object", VNone)>> \o WatchKeys \o DataWatchKeys
    [] family = "watch" /\ cls = "count" ->
         <<KeySpec("count", "object", VNone)>> \o WatchKeys \o DataWatchKeys
    [] family = "watch" /\ cls = "static" ->
         <<KeySpec("static", "object", VNone)>> \o WatchKeys \o DataWatchKeys
         \o <<KeySpec("data", "list", VL(<<>>))>>
    [] family = "watch" /\ cls = "throw" ->
         <<KeySpec("throw", "object", VNone)>> \o WatchKeys
    [] family = "match" /\ cls = "cache" ->
         << KeySpec("cache", "object", VNone),
            KeySpec("key", "none_or_str", VNone),
            KeySpec("empty", "bool", VB(FALSE)) >>
    [] family = "match" /\ cls = "none" -> <<KeySpec("none", "object", VNone)>>
    [] family = "match" /\ cls = "true" -> <<KeySpec("true", "object", VNone)>>
    [] family = "match" /\ cls = "false" -> <<KeySpec("false", "object", VNone)>>
    [] family = "selector" /\ cls = "slice" ->
         <<KeySpec("slice", "object", VNone)>> \o SelectorKeys
         \o <<KeySpec("start", "int", VI(0)), KeySpec("end", "int", VNone)>>
    [] family = "selector" /\ cls = "join" ->
         <<KeySpec("join", "object", VNone)>> \o SelectorKeys
         \o <<KeySpec("sep", "str", VS(","))>>
    [] family = "selector" /\ cls \in {"new", "since"} ->
         <<KeySpec(cls, "object", VNone)>> \o SelectorKeys
         \o <<KeySpec("cache_key", "none_or_str", VNone),
              KeySpec("key", "none_or_str", VS("key"))>>
    [] family = "selector" /\ cls = "sub" ->
         <<KeySpec("sub", "object", VNone), KeySpec("value", "list_of_dict", VNone),
           KeySpec("input", "none_or_str", VNone), KeySpec("store", "none_or_str", VNone)>>
    [] family = "action" /\ cls = "log" ->
         <<KeySpec("log", "object", VNone)>> \o LogActionKeys

\* the class attribute default_key, "" where the class has none
DefaultKey(family, cls) ==
  CASE family = "watch" /\ cls = "static" -> "data"
    [] family = "watch" /\ cls = "range" -> "to"
    [] family = "match" /\ cls = "cache" -> "key"
    [] family = "selector" /\ cls = "slice" -> "end"
    [] family = "selector" /\ cls = "join" -> "sep"
    [] family = "selector" /\ cls \in {"new", "since"} -> "cache_key"
    [] family = "selector" /\ cls = "sub" -> "value"
    [] OTHER -> ""

\* getattr(loadable_cls, "hash_skip", []) and
\* getattr(cls, "type_determination_skip", [])
HashSkip(family) == IF family = "watch" THEN {"comment"} ELSE {}
TypeDeterminationSkip(family) == IF family = "watch" THEN {"before"} ELSE {}

Raise(exc) == [ok |-> FALSE, exc |-> exc]

\* str.lower() on the type tags that occur: str(None), str(True) and
\* str(False) carry a capital, every other tag of the model is lower case
Lower(s) ==
  CASE s = "None" -> "none"
    [] s = "True" -> "true"
    [] s = "False" -> "false"
    [] OTHER -> s

\* Loadable.get_type
\* get_type that takes the first kwarg naming a registered class
get_type_any(family, kwargs) ==
  LET cand == SelectSeq(DictKeys(kwargs), LAMBDA x : Lower(x) \in Classes(family))
      ltype == IF DictHas(kwargs, "type") THEN PyStr(DictGet(kwargs, "type"))
               ELSE IF Len(cand) > 0 THEN cand[1] ELSE "None"
  IN IF Lower(ltype) \in Classes(family) THEN [ok |-> TRUE, cls |-> Lower(ltype)]
     ELSE Raise("LoadableException")

get_type(family, kwargs) ==
  LET cand == SelectSeq(DictKeys(kwargs),
                        LAMBDA x : x \notin TypeDeterminationSkip(family))
      ltype == IF DictHas(kwargs, "type") THEN PyStr(DictGet(kwargs, "type"))
               ELSE IF Len(cand) > 0 THEN cand[1] ELSE "None"
  IN IF Lower(ltype) \in Classes(family) THEN [ok |-> TRUE, cls |-> Lower(ltype)]
     ELSE Raise("LoadableException")

OperatorChoices == {"all", "and", "any", "or", "last"}
LevelChoices == {"debug", "info", "warning", "error", "critical"}

\* int(s) on the decimal strings of one digit
Digits == {ToString(n) : n \in 0..9}
IntOf(s) == CHOOSE n \in 0..9 : ToString(n) = s

\* the cast of one supplied argument: ktype(kwargs[k]) for a function
\* coercer, the isinstance test and the basic cast otherwise
Coerce(c, v) ==
  CASE c = "object" -> [ok |-> TRUE, v |-> v]
    [] c = "str" -> [ok |-> TRUE, v |-> IF v.t = "str" THEN v ELSE VS(PyStr(v))]
    [] c = "bool" -> [ok |-> TRUE, v |-> IF v.t = "bool" THEN v ELSE VB(PyBool(v))]
    [] c = "int" ->
         IF v.t = "int" \/ v.t = "bool" THEN [ok |-> TRUE, v |-> v]
         ELSE IF v.t = "str" /\ v.s \in Digits THEN [ok |-> TRUE, v |-> VI(IntOf(v.s))]
         ELSE IF v.t = "str" THEN Raise("ValueError")
         ELSE Raise("TypeError")
    [] c = "dict" -> IF v.t = "dict" THEN [ok |-> TRUE, v |-> v]
                     ELSE Raise("LoadableException")
    [] c = "list" -> IF v.t = "list" THEN [ok |-> TRUE, v |-> v]
                     ELSE Raise("LoadableException")
    [] c = "list_of_dict" ->
         LET arg == IF v.t = "list" THEN v.l ELSE <<v>>
         IN IF \A i \in 1..Len(arg) : arg[i].t = "dict"
            THEN [ok |-> TRUE, v |-> VL(arg)]
            ELSE Raise("LoadableException")
    [] c = "none_or_str" ->
         [ok |-> TRUE, v |-> IF v.t = "none" \/ v.t = "str" THEN v ELSE VS(PyStr(v))]
    [] c = "list_of_str" ->
         LET arg == IF v.t = "list" THEN v.l ELSE <<v>>
         IN IF \A i \in 1..Len(arg) : arg[i].t = "str"
            THEN [ok |-> TRUE, v |-> VL(arg)]
            ELSE Raise("LoadableException")
    [] c = "body_lambda" ->
         [ok |-> TRUE, v |-> IF v.t \in {"dict", "list"} THEN v ELSE VNone]
    [] c = "none_or_dict" ->
         IF v.t = "none" \/ v.t = "dict" THEN [ok |-> TRUE, v |-> v]
         ELSE IF (v.t = "list" /\ v.l = <<>>) \/ (v.t = "str" /\ v.s = "")
         THEN [ok |-> TRUE, v |-> VD(<<>>)]
         ELSE IF v.t \in {"int", "bool"} THEN Raise("TypeError")
         ELSE Raise("ValueError")
    [] c = "none_or_int" ->
         IF v.t = "none" \/ v.t = "int" THEN [ok |-> TRUE, v |-> v]
         ELSE IF v.t = "bool" THEN [ok |-> TRUE, v |-> VI(IF v.b THEN 1 ELSE 0)]
         ELSE Raise("ValueError")
    [] c = "one_of" -> [ok |-> TRUE, v |-> v]
    [] c = "operator_choice" ->
         IF v.t = "str" /\ v.s \in OperatorChoices THEN [ok |-> TRUE, v |-> v]
         ELSE Raise("LoadableException")
    [] c = "output_choice" ->
         [ok |-> TRUE, v |-> IF v.t = "str" /\ v.s \in {"stdout", "stderr", "both"}
                             THEN v ELSE VS("stdout")]
    [] c = "level_choice" ->
         [ok |-> TRUE, v |-> IF v.t = "str" /\ v.s \in LevelChoices THEN v ELSE VS("info")]
    [] c = "error_level_choice" ->
         [ok |-> TRUE, v |-> IF v.t = "str" /\ v.s \in LevelChoices THEN v ELSE VS("error")]
    [] c = "match_lambda" ->
         [ok |-> TRUE, v |-> IF v.t = "dict" THEN v ELSE VD(<< <<"type", v>> >>)]

\* the loop of Loadable.load over loadable_keys: lk is lkwargs so far,
\* kwargs what is left of the supplied arguments
RECURSIVE BindKeys(_, _, _)
BindKeys(keys, kwargs, lk) ==
  IF Len(keys) = 0 THEN [ok |-> TRUE, lk |-> lk, rest |-> kwargs]
  ELSE IF DictHas(kwargs, Head(keys).k)
  THEN Bind(Coerce(Head(keys).c, DictGet(kwargs, Head(keys).k)), LAMBDA c :
         IF c.ok
         THEN BindKeys(Tail(keys), DictDel(kwargs, Head(keys).k),
                       Append(lk, <<Head(keys).k, c.v>>))
         ELSE c)
  ELSE BindKeys(Tail(keys), kwargs, Append(lk, <<Head(keys).k, Head(keys).d>>))

\* Loadable.load: the loaded object carries its class, its fields (lkwargs,
\* `kwargs` last) and its hash
Load(family, kwargs) ==
  Bind(get_type(family, kwargs), LAMBDA ty :
    IF ~ty.ok THEN ty
    ELSE
      Bind(DictDel(kwargs, "type"), LAMBDA k1 :
      Bind(DictGet(k1, ty.cls), LAMBDA dv :
      Bind(BindKeys(LoadableKeys(family, ty.cls),
                    IF dv.t # "none" /\ DefaultKey(family, ty.cls) # ""
                    THEN DictSet(DictDel(k1, ty.cls), DefaultKey(family, ty.cls), dv)
                    ELSE k1,
                    <<>>), LAMBDA b :
        IF ~b.ok THEN b
        ELSE
          Bind(Append(b.lk, <<"kwargs", VD(b.rest)>>), LAMBDA lkwargs :
            [ok |-> TRUE,
             obj |-> [family |-> family, cls |-> ty.cls, f |-> lkwargs,
                      hash |-> hash_args(VD(lkwargs), HashSkip(family))]])))))

\* Loadable.update_hash: the hash object goes on from the bytes it has seen
update_hash(obj, arg) == [obj EXCEPT !.hash = obj.hash \o hash_args(arg, {})]

Attr(obj, k) == DictGet(obj.f, k)

(***************************************************************************)
(* cache.py: the entry store of Cache.  A key stands for its sha256.       *)
(***************************************************************************)
EmptyCache == [k \in {} |-> VNone]
has_entry(cache, key) == key \in DOMAIN cache
get_entry(cache, key) == IF key \in DOMAIN cache THEN cache[key] ELSE VNone
put_entry(cache, key, data) ==
  [k \in DOMAIN cache \cup {key} |-> IF k = key THEN data ELSE cache[k]]

\* base64.b64encode(b).decode() and base64.b64decode(s), on the text of
\* the byte strings of the model
b64encode(s) == "b64(" \o s \o ")"
b64decode(s) == SubSeq(s, 5, Len(s) - 1)

\* json.dumps(data, default=json_encode) followed by the parse of
\* json.loads: the JSON value of data, bytes as the _base64 object
RECURSIVE json_dumps(_)
json_dumps(data) ==
  CASE data.t = "bytes" ->
         VD(<< <<"_base64", VB(TRUE)>>, <<"data", VS(b64encode(data.s))>> >>)
    [] data.t = "list" -> VL([i \in 1..Len(data.l) |-> json_dumps(data.l[i])])
    [] data.t = "dict" ->
         VD([i \in 1..Len(data.d) |-> <<data.d[i][1], json_dumps(data.d[i][2])>>])
    [] OTHER -> data

\* json.loads(data, object_hook=json_decode) on a JSON value
RECURSIVE json_loads(_)
json_loads(j) ==
  CASE j.t = "list" -> VL([i \in 1..Len(j.l) |-> json_loads(j.l[i])])
    [] j.t = "dict" ->
         LET obj == [i \in 1..Len(j.d) |-> <<j.d[i][1], json_loads(j.d[i][2])>>]
         IN IF DictGet(obj, "_base64") = VB(TRUE)
            THEN VY(b64decode(DictGet(obj, "data").s))
            ELSE VD(obj)
    [] OTHER -> j

\* yaml.dump(obj) and yaml.safe_load of it: a node per value under the tag
\* of its type, bytes as !!binary
RECURSIVE yaml_dump(_)
yaml_dump(v) ==
  CASE v.t = "bytes" -> [tag |-> "!!binary", node |-> b64encode(v.s)]
    [] v.t = "str" -> [tag |-> "!!str", node |-> v.s]
    [] v.t = "int" -> [tag |-> "!!int", node |-> v.i]
    [] v.t = "bool" -> [tag |-> "!!bool", node |-> v.b]
    [] v.t = "list" -> [tag |-> "!!seq", node |-> [i \in 1..Len(v.l) |-> yaml_dump(v.l[i])]]
    [] v.t = "dict" ->
         [tag |-> "!!map",
          node |-> [i \in 1..Len(v.d) |-> <<v.d[i][1], yaml_dump(v.d[i][2])>>]]
    [] OTHER -> [tag |-> "!!null", node |-> ""]
RECURSIVE yaml_safe_load(_)
yaml_safe_load(n) ==
  CASE n.tag = "!!binary" -> VY(b64decode(n.node))
    [] n.tag = "!!str" -> VS(n.node)
    [] n.tag = "!!int" -> VI(n.node)
    [] n.tag = "!!bool" -> VB(n.node)
    [] n.tag = "!!seq" -> VL([i \in 1..Len(n.node) |-> yaml_safe_load(n.node[i])])
    [] n.tag = "!!map" ->
         VD([i \in 1..Len(n.node) |-> <<n.node[i][1], yaml_safe_load(n.node[i][2])>>])
    [] OTHER -> VNone

(***************************************************************************)
(* cache.py: the Cache object around the entry store.  `disk` is what the  *)
(* object keeps outside self.cache: cache_path and the key of its          *)
(* encryptor ("" for None), closed, the blob files of cache_dir (exists    *)
(* FALSE once the directory is removed), and the archives on the paths.    *)
(* A blob is the JSON value written and the key it was encrypted under.    *)
(***************************************************************************)
NoFiles == [k \in {} |-> VNone]
TempDir == [exists |-> TRUE, files |-> NoFiles]
NoArchives == [p \in {} |-> VNone]
\* Cache() as the tests construct it
NewDisk ==
  [cache_path |-> "", encryptor |-> "", closed |-> FALSE, cache_dir |-> TempDir,
   archives |-> NoArchives]

\* os.path.dirname on the paths of the model
dirname(path) ==
  CASE path = "/tmp/cache.tar.gz" -> "/tmp"
    [] OTHER -> ""
\* os.path.isdir
isdir(path) == path = "/tmp"

\* Cache.has_file
has_file(d, key) == d.cache_dir.exists /\ key \in DOMAIN d.cache_dir.files

\* Cache.get_file(key): the default None for a missing file; a blob of
\* another key fails in decrypt (InvalidToken), a cipher text read without
\* a key fails in json.loads
get_file(d, key) ==
  IF ~has_file(d, key) THEN [ok |-> TRUE, v |-> VNone]
  ELSE LET blob == d.cache_dir.files[key]
       IN IF d.encryptor # "" /\ blob.enc # d.encryptor THEN Raise("InvalidToken")
          ELSE IF d.encryptor = "" /\ blob.enc # "" THEN Raise("ValueError")
          ELSE [ok |-> TRUE, v |-> json_loads(blob.json)]

\* Cache.put_file(key, data): open(..., "wb") fails without the directory
put_file(d, key, data) ==
  IF ~d.cache_dir.exists THEN [ok |-> FALSE, exc |-> "FileNotFoundError", d |-> d]
  ELSE [ok |-> TRUE,
        d |-> [d EXCEPT !.cache_dir.files =
                 [k \in DOMAIN @ \cup {key} |->
                    IF k = key THEN [enc |-> d.encryptor, json |-> json_dumps(data)]
                    ELSE @[k]]]]

\* Cache.close on the entries in `entries`
Cache_close(d, entries) ==
  Bind([d EXCEPT !.closed = TRUE], LAMBDA d1 :
    IF ~d.cache_dir.exists THEN [ok |-> FALSE, exc |-> "FileNotFoundError", d |-> d1]
    ELSE IF d.cache_path = ""
    THEN [ok |-> TRUE, d |-> [d1 EXCEPT !.cache_dir = [exists |-> FALSE, files |-> NoFiles]]]
    \* os.makedirs of the empty directory name raises
    ELSE IF ~isdir(dirname(d.cache_path)) /\ dirname(d.cache_path) = ""
    THEN [ok |-> FALSE, exc |-> "FileNotFoundError", d |-> d1]
    ELSE [ok |-> TRUE,
          d |-> [d1 EXCEPT
                   !.cache_dir = [exists |-> FALSE, files |-> NoFiles],
                   !.archives =
                     [p \in DOMAIN @ \cup {d.cache_path} |->
                        IF p = d.cache_path
                        THEN [yaml |-> [k \in DOMAIN entries |-> yaml_dump(entries[k])],
                              files |-> d.cache_dir.files]
                        ELSE @[p]]]])

\* Cache(cache_path, encryption_key): [d |-> the object, cache |-> self.cache]
Cache_init(archives, cache_path, encryption_key) ==
  LET found == cache_path # "" /\ cache_path \in DOMAIN archives
  IN [d |-> [cache_path |-> cache_path, encryptor |-> encryption_key, closed |-> FALSE,
             cache_dir |-> [exists |-> TRUE,
                            files |-> IF found THEN archives[cache_path].files ELSE NoFiles],
             archives |-> archives],
      cache |-> IF found
                THEN [k \in DOMAIN archives[cache_path].yaml |->
                        yaml_safe_load(archives[cache_path].yaml[k])]
                ELSE EmptyCache]

(***************************************************************************)
(* context.py: Context.  A frame is its _frameId and its variable stacks;  *)
(* ctx is [frames, variables], variables being Context._variables.         *)
(***************************************************************************)
NewContext == [frames |-> << [id |-> "root", vars |-> <<>>] >>, variables |-> <<>>]

push_frame(ctx, id) ==
  [ctx EXCEPT !.frames = Append(@, [id |-> id, vars |-> <<>>])]

\* pop_frame that leaves the frame on the stack
pop_frame_lazy(ctx, id) == [ok |-> TRUE, exc |-> "", ctx |-> ctx]

\* pop_frame that hands the variables of the popped frame to the frame below
pop_frame_merging(ctx, id) ==
  LET n == Len(ctx.frames)
      popped == [ctx EXCEPT !.frames =
                   [SubSeq(@, 1, n - 1) EXCEPT ![n - 1].vars = DictMerge(@, ctx.frames[n].vars)]]
  IN IF n = 0 THEN [ok |-> FALSE, exc |-> "IndexError", ctx |-> ctx]
     ELSE IF ctx.frames[n].id # id
          THEN [ok |-> FALSE, exc |-> "KeyError", ctx |-> popped]
          ELSE [ok |-> TRUE, exc |-> "", ctx |-> popped]
\* frames.pop(); a frame of another id raises (the message itself fails
\* with KeyError on frame['id'])
pop_frame(ctx, id) ==
  LET n == Len(ctx.frames)
      popped == [ctx EXCEPT !.frames = SubSeq(@, 1, n - 1)]
  IN IF n = 0 THEN [ok |-> FALSE, exc |-> "IndexError", ctx |-> ctx]
     ELSE IF ctx.frames[n].id # id
          THEN [ok |-> FALSE, exc |-> "KeyError", ctx |-> popped]
          ELSE [ok |-> TRUE, exc |-> "", ctx |-> popped]

\* frames[-1].setdefault(key, []).append(value), on a non-empty frame stack
push_variable(ctx, key, value) ==
  LET n == Len(ctx.frames)
      vars == ctx.frames[n].vars
      stack == IF DictHas(vars, key) THEN vars[DictIdx(vars, key)][2] ELSE <<>>
  IN [ctx EXCEPT !.frames[n].vars = DictSet(vars, key, Append(stack, value))]

\* frames[-1][key].pop(), the key deleted with its last value
pop_variable(ctx, key) ==
  LET n == Len(ctx.frames)
      vars == ctx.frames[n].vars
      stack == vars[DictIdx(vars, key)][2]
  IN [ctx EXCEPT !.frames[n].vars =
        IF Len(stack) = 1 THEN DictDel(vars, key)
        ELSE DictSet(vars, key, SubSeq(stack, 1, Len(stack) - 1))]

set_variable(ctx, key, value) ==
  [ctx EXCEPT !.variables = DictSet(@, key, value)]

\* `for frame in self.frames`: the first frame of the list that holds the
\* key answers, with the last value pushed there
get_variable(ctx, key) ==
  LET holders == {i \in 1..Len(ctx.frames) : DictHas(ctx.frames[i].vars, key)}
  IN IF holders # {}
     THEN LET i == CHOOSE j \in holders : \A k \in holders : j <= k
              stack == ctx.frames[i].vars[DictIdx(ctx.frames[i].vars, key)][2]
          IN stack[Len(stack)]
     ELSE DictGet(ctx.variables, key)

\* the templates that occur in the model, each one variable in braces, and
\* the variable each names ("" for a string without a brace)
TemplateHash == "{{ hash }}"
TemplateIndex == "{{ index }}"
TemplateLoop == "{{ loop }}"
TemplateName == "{{ name }}"
TemplateVar(template) ==
  CASE template = TemplateHash -> "hash"
    [] template = TemplateIndex -> "index"
    [] template = TemplateLoop -> "loop"
    [] template = TemplateName -> "name"
    [] OTHER -> ""

\* template.py: finalize, and the str() jinja2 takes of what it leaves
RECURSIVE finalize(_)
finalize(value) ==
  CASE value.t = "none" -> ""
    [] value.t = "bytes" -> value.s
    [] value.t = "list" /\ Len(value.l) = 0 -> ""
    [] value.t = "list" /\ Len(value.l) = 1 -> finalize(value.l[1])
    [] value.t = "dict" /\ Len(value.d) = 0 -> ""
    [] OTHER -> PyStr(value)

\* template_render on the templates that occur in the model
template_render(template, ctx) ==
  IF TemplateVar(template) # ""
  THEN finalize(get_variable(ctx, TemplateVar(template))) ELSE template

\* Context.expand_context on a string: rendered when it holds a brace
expand_context(ctx, value) ==
  IF TemplateVar(value) # "" THEN template_render(value, ctx) ELSE value

\* Context.expand_context on any value: strings rendered, lists and dicts
\* expanded element by element, a dict by its keys and its values
RECURSIVE expand_value(_, _), expand_items(_, _, _)
expand_items(ctx, d, acc) ==
  IF Len(d) = 0 THEN acc
  ELSE expand_items(ctx, Tail(d),
                    DictSet(acc, expand_context(ctx, Head(d)[1]),
                            expand_value(ctx, Head(d)[2])))
expand_value(ctx, value) ==
  CASE value.t = "str" -> VS(expand_context(ctx, value.s))
    [] value.t = "list" -> VL([i \in 1..Len(value.l) |-> expand_value(ctx, value.l[i])])
    [] value.t = "dict" -> VD(expand_items(ctx, value.d, <<>>))
    [] OTHER -> value

(***************************************************************************)
(* match.py                                                                *)
(***************************************************************************)
Item(value) == [t |-> "item", value |-> value, vars |-> <<>>]

\* CacheMatch.match without the put_entry of a cache miss
CacheMatch_match_forgetful(m, ctx, cache, items) ==
  IF ~Attr(m, "empty").b /\ Len(items) = 0
  THEN [r |-> FALSE, cache |-> cache]
  ELSE LET hash_key == IF Attr(m, "key").t # "none"
                       THEN expand_context(ctx, Attr(m, "key").s)
                       ELSE m.hash \o "-match"
       IN [r |-> ~has_entry(cache, hash_key), cache |-> cache]

\* CacheMatch.match with the key recorded before the test for empty data
CacheMatch_match_marking(m, ctx, cache, items) ==
  LET hash_key == IF Attr(m, "key").t # "none"
                  THEN expand_context(ctx, Attr(m, "key").s)
                  ELSE m.hash \o "-match"
  IN IF ~Attr(m, "empty").b /\ Len(items) = 0
     THEN [r |-> FALSE, cache |-> put_entry(cache, hash_key, VB(TRUE))]
     ELSE IF ~has_entry(cache, hash_key)
          THEN [r |-> TRUE, cache |-> put_entry(cache, hash_key, VB(TRUE))]
          ELSE [r |-> FALSE, cache |-> cache]
\* CacheMatch.match: [r |-> the boolean returned, cache |-> the cache after]
CacheMatch_match(m, ctx, cache, items) ==
  IF ~Attr(m, "empty").b /\ Len(items) = 0
  THEN [r |-> FALSE, cache |-> cache]
  ELSE LET hash_key == IF Attr(m, "key").t # "none"
                       THEN expand_context(ctx, Attr(m, "key").s)
                       ELSE m.hash \o "-match"
       IN IF ~has_entry(cache, hash_key)
          THEN [r |-> TRUE, cache |-> put_entry(cache, hash_key, VB(TRUE))]
          ELSE [r |-> FALSE, cache |-> cache]

\* Match.match by class: NoneMatch and the test suite's TrueMatch and
\* FalseMatch leave the cache alone
Match_match(m, ctx, cache, items) ==
  CASE m.cls = "cache" -> CacheMatch_match(m, ctx, cache, items)
    [] m.cls = "none" -> [r |-> TRUE, cache |-> cache]
    [] m.cls = "true" -> [r |-> TRUE, cache |-> cache]
    [] m.cls = "false" -> [r |-> FALSE, cache |-> cache]

(***************************************************************************)
(* selector.py: Selector.execute with SliceSelector and JoinSelector       *)
(***************************************************************************)
\* SelectorItem.clone(value): `value or self.value`
clone(item, value) == [item EXCEPT !.value = IF value.s # "" THEN value ELSE @]

\* sep.join of the texts of byte strings
RECURSIVE JoinValues(_, _)
JoinValues(sep, values) ==
  IF Len(values) = 0 THEN ""
  ELSE IF Len(values) = 1 THEN values[1].s
  ELSE values[1].s \o sep \o JoinValues(sep, Tail(values))

\* items[start:end] for indices that are not negative, end None for the end
Slice(items, start, end) ==
  SubSeq(items, start + 1, IF end.t = "none" \/ end.i > Len(items) THEN Len(items) ELSE end.i)

IsItem(x) == x.t = "item"

\* SubSelector.run_all: each item goes alone through run_all of the nested
\* selectors (the selectors __init__ loaded from `value`), one after the
\* other, and what comes out of the last is collected.  sub_chain is the
\* inner loop from the k-th selector on, sub_items the outer loop.
RECURSIVE Selector_run_all(_, _), sub_chain(_, _, _), sub_items(_, _, _)
sub_chain(selectors, k, item) ==
  IF k > Len(selectors) THEN [ok |-> TRUE, items |-> item]
  ELSE Bind(Load("selector", selectors[k].d), LAMBDA ld :
         IF ~ld.ok THEN Raise(ld.exc)
         ELSE Bind(Selector_run_all(ld.obj, item), LAMBDA r :
                IF ~r.ok THEN r ELSE sub_chain(selectors, k + 1, r.items)))
sub_items(sel, items, _items) ==
  IF Len(items) = 0
  THEN (IF \E i \in 1..Len(_items) : ~IsItem(_items[i]) THEN Raise("SelectorException")
        ELSE [ok |-> TRUE, items |-> _items])
  ELSE Bind(sub_chain(Attr(sel, "value").l, 1, <<Head(items)>>), LAMBDA r :
         IF ~r.ok THEN r ELSE sub_items(sel, Tail(items), _items \o r.items))

\* run_all by class: SliceSelector.run_all, JoinSelector.run_all and
\* SubSelector.run_all
Selector_run_all(sel, items) ==
  CASE sel.cls = "sub" -> sub_items(sel, items, <<>>)
    [] sel.cls = "slice" ->
         [ok |-> TRUE, items |-> Slice(items, Attr(sel, "start").i, Attr(sel, "end"))]
    [] sel.cls = "join" ->
         IF Len(items) = 0 THEN [ok |-> TRUE, items |-> <<>>]
         ELSE IF \E i \in 1..Len(items) : ~IsItem(items[i]) THEN Raise("AttributeError")
         ELSE IF \E i \in 1..Len(items) : items[i].value.t # "bytes" THEN Raise("TypeError")
         ELSE [ok |-> TRUE,
               items |-> <<clone(items[1],
                                 VY(JoinValues(Attr(sel, "sep").s,
                                               [i \in 1..Len(items) |-> items[i].value])))>>]

\* hashlib.sha256(value).hexdigest(), a digest standing for the text
sha256_hex(s) == "sha256(" \o s \o ")"

\* the key CacheSelector derives for an item: the variable named by `key`
\* or the digest of the value, text encoded to bytes
ItemKey(sel, item) ==
  LET k == IF Attr(sel, "key").t = "str" /\ DictHas(item.vars, Attr(sel, "key").s)
           THEN DictGet(item.vars, Attr(sel, "key").s)
           ELSE VS(sha256_hex(item.value.s))
  IN IF k.t = "str" THEN VY(k.s) ELSE k

\* the key of the cache file of a CacheSelector
SelectorCacheKey(sel, ctx) ==
  IF Attr(sel, "cache_key").t # "none" THEN expand_context(ctx, Attr(sel, "cache_key").s)
  ELSE sel.hash \o "-selector-cache-" \o sel.cls \o "selector"

\* CacheSelector.get_cached_data that never finds the file
get_cached_data_fresh(sel, ctx, d) ==
  [ok |-> TRUE, v |-> IF sel.cls = "new" THEN VL(<<>>) ELSE VNone]

\* CacheSelector.get_cached_data: the file cast as `type` (a set, kept as
\* the list of its elements) when it is true, else type() or None
get_cached_data(sel, ctx, d) ==
  Bind(get_file(d, SelectorCacheKey(sel, ctx)), LAMBDA data :
    IF ~data.ok THEN data
    ELSE IF PyBool(data.v) THEN data
    ELSE [ok |-> TRUE, v |-> IF sel.cls = "new" THEN VL(<<>>) ELSE VNone])

\* CacheSelector.put_cached_data that writes nothing
put_cached_data_dropped(sel, ctx, d, data) == [ok |-> TRUE, d |-> d]
\* CacheSelector.put_cached_data
put_cached_data(sel, ctx, d, data) == put_file(d, SelectorCacheKey(sel, ctx), data)

\* the loop of NewSelector.run_all with the keys compared to the set as it
\* was cached only
RECURSIVE NewItems_stale(_, _, _, _)
NewItems_stale(sel, items, cached_set, new_items) ==
  IF Len(items) = 0
  THEN [items |-> new_items,
        set |-> cached_set \cup {ItemKey(sel, new_items[i]) : i \in 1..Len(new_items)}]
  ELSE IF ItemKey(sel, Head(items)) \in cached_set
  THEN NewItems_stale(sel, Tail(items), cached_set, new_items)
  ELSE NewItems_stale(sel, Tail(items), cached_set, Append(new_items, Head(items)))
\* the loop of NewSelector.run_all: the items whose key is not in the set,
\* each key added as it is met
RECURSIVE NewItems(_, _, _, _)
NewItems(sel, items, cached_set, new_items) ==
  IF Len(items) = 0 THEN [items |-> new_items, set |-> cached_set]
  ELSE IF ItemKey(sel, Head(items)) \in cached_set
  THEN NewItems(sel, Tail(items), cached_set, new_items)
  ELSE NewItems(sel, Tail(items), cached_set \cup {ItemKey(sel, Head(items))},
                Append(new_items, Head(items)))

\* list(cached_set): the elements in the order the set gives them
RECURSIVE ListOf(_)
ListOf(S) ==
  IF S = {} THEN <<>>
  ELSE LET x == CHOOSE y \in S : TRUE IN <<x>> \o ListOf(S \ {x})
\* set(data)
SetOf(l) == {l[i] : i \in 1..Len(l)}

\* NewSelector.run_all and SinceSelector.run_all against the cache files
\* of d: [items |-> what it returns, d |-> the cache after]
CacheSelector_run_all(sel, ctx, d, items) ==
  IF \E i \in 1..Len(items) : items[i].value.t # "bytes"
  THEN [ok |-> FALSE, exc |-> "TypeError", d |-> d]
  ELSE
  Bind(get_cached_data(sel, ctx, d), LAMBDA c :
    IF ~c.ok THEN [ok |-> FALSE, exc |-> c.exc, d |-> d]
    ELSE IF sel.cls = "new"
    THEN Bind(NewItems(sel, items, SetOf(c.v.l), <<>>), LAMBDA n :
         Bind(put_cached_data(sel, ctx, d, VL(ListOf(n.set))), LAMBDA p :
           IF ~p.ok THEN p ELSE [ok |-> TRUE, items |-> n.items, d |-> p.d]))
    ELSE
      LET found == {i \in 1..Len(items) : c.v.t # "none" /\ ItemKey(sel, items[i]) = c.v}
          index == IF found = {} THEN Len(items)
                   ELSE (CHOOSE i \in found : \A j \in found : i <= j) - 1
          _items == SubSeq(items, 1, index)
      IN IF Len(_items) = 0 THEN [ok |-> TRUE, items |-> _items, d |-> d]
         ELSE Bind(put_cached_data(sel, ctx, d, ItemKey(sel, _items[1])), LAMBDA p :
                IF ~p.ok THEN p ELSE [ok |-> TRUE, items |-> _items, d |-> p.d]))

\* the items a selector works on: the data it is given, or the variable
\* named by `input`, made a list
SelectorInput(sel, ctx, data) ==
  IF Attr(sel, "input").t = "none" THEN data
  ELSE LET v == get_variable(ctx, Attr(sel, "input").s)
       IN IF v.t = "list" THEN v.l ELSE <<v>>

\* Selector.execute: [items |-> what it returns, results |-> what run_all
\* gave, ctx |-> the context after]
Selector_execute(sel, ctx, data) ==
  Bind(Selector_run_all(sel, SelectorInput(sel, ctx, data)), LAMBDA r :
    IF ~r.ok THEN [ok |-> FALSE, exc |-> r.exc, ctx |-> ctx]
    ELSE IF \E i \in 1..Len(r.items) : ~IsItem(r.items[i])
    THEN [ok |-> FALSE, exc |-> "SelectorException", ctx |-> ctx]
    ELSE IF Attr(sel, "store").t # "none"
    THEN [ok |-> TRUE, items |-> data, results |-> r.items,
          ctx |-> push_variable(ctx, Attr(sel, "store").s, VL(r.items))]
    ELSE [ok |-> TRUE, items |-> r.items, results |-> r.items, ctx |-> ctx])

(***************************************************************************)
(* watch.py.  An evaluation state st is [cache, ctx, world, log, snap]: the *)
(* cache and the context the watch runs against, the outcome the shell     *)
(* gives each command during this call, and the trace of the call.  Every  *)
(* method returns [st |-> the state after, out |-> its result], out being  *)
(* Ret(trigger, comment, data) or Exc(the exception raised).               *)
(***************************************************************************)
Ret(trigger, comment, data) ==
  [kind |-> "ret", trigger |-> trigger, comment |-> comment, data |-> data]
Exc(e) == [kind |-> "raise", exc |-> e]
NoTrigger == Ret(FALSE, <<>>, <<>>)
NoOut == [kind |-> "none"]

\* trace events: e the step, h the hash of the object it concerns, p the
\* hash of the watch that performs it, x and out what the step saw
Event(e, h, p, x, out) == [e |-> e, h |-> h, p |-> p, x |-> x, out |-> out]
\* every event is logged with the context it happened in: snap[i] is the
\* context at log[i]
Log(st, e, h, p, x, out) ==
  [st EXCEPT !.log = Append(@, Event(e, h, p, x, out)), !.snap = Append(@, st.ctx)]

OPERATOR_ALL == {"all", "and"}
OPERATOR_LAST == "last"
OPERATOR_BREAK == "break"

DataClasses == {"cmd", "true", "range", "count", "static"}
MultipleClasses == {"group", "once", "loop", "conditional", "template"}

\* what `echo <word>` writes to stdout
Stdout(cmd) ==
  CASE cmd = "echo hello" -> "hello\n"
    [] cmd = "echo world" -> "world\n"
    [] OTHER -> ""

\* Watch.get_comment
get_comment(w, ctx) ==
  IF Attr(w, "comment").t # "none"
  THEN <<VS(expand_context(ctx, Attr(w, "comment").s))>> ELSE <<>>

\* Watch.get_data
get_data(w, ctx) ==
  IF Attr(w, "action_data").t = "none" THEN <<>>
  ELSE << VD(DictMerge(<< <<"id", get_variable(ctx, "hash")>>,
                          <<"executed", get_variable(ctx, "starttime")>> >>,
                       Attr(w, "action_data").d)) >>

\* range(start, stop, step) for a step that is not 0
RECURSIVE RangeSeq(_, _, _)
RangeSeq(start, stop, step) ==
  IF (step > 0 /\ start >= stop) \/ (step < 0 /\ start <= stop) THEN <<>>
  ELSE <<start>> \o RangeSeq(start + step, stop, step)

\* int(x) of an attribute bound by the `int` cast, which lets a bool through
AsInt(v) == IF v.t = "bool" THEN (IF v.b THEN 1 ELSE 0) ELSE v.i

\* fetch_data of CmdWatch (after render_variables), TrueWatch, RangeWatch
\* and the test suite's CountWatch and StaticWatch: the data fetched, or
\* the exception.  A command that the shell does not finish in time raises.
fetch_data(w, st) ==
  CASE w.cls = "cmd" ->
         LET cmd == expand_context(st.ctx, PyStr(Attr(w, "cmd")))
         IN IF st.world[cmd] = "ok" THEN [ok |-> TRUE, data |-> <<VY(Stdout(cmd))>>]
            ELSE Raise("WatchFetchException")
    [] w.cls = "true" -> [ok |-> TRUE, data |-> <<>>]
    [] w.cls = "range" ->
         IF AsInt(Attr(w, "step")) = 0 THEN Raise("ValueError")
         ELSE [ok |-> TRUE,
               data |-> LET r == RangeSeq(AsInt(Attr(w, "from")), AsInt(Attr(w, "to")),
                                          AsInt(Attr(w, "step")))
                        IN [i \in 1..Len(r) |-> VY(ToString(r[i]))]]
    [] w.cls = "count" -> [ok |-> TRUE, data |-> <<VY("1")>>]
    [] w.cls = "static" ->
         [ok |-> TRUE,
          data |-> [i \in 1..Len(Attr(w, "data").l) |->
                      IF Attr(w, "data").l[i].t = "str"
                      THEN VS(expand_context(st.ctx, Attr(w, "data").l[i].s))
                      ELSE Attr(w, "data").l[i]]]

\* DataWatch.select_data from the i-th selector on: each is loaded and
\* executed on the items of the one before
RECURSIVE select_loop(_, _, _, _)
select_loop(selectors, i, ctx, items) ==
  IF i > Len(selectors) THEN [ok |-> TRUE, items |-> items, ctx |-> ctx]
  ELSE
    Bind(Load("selector", selectors[i].d), LAMBDA ld :
      IF ~ld.ok THEN [ok |-> FALSE, exc |-> ld.exc, ctx |-> ctx]
      ELSE
        Bind(Selector_execute(ld.obj, ctx, items), LAMBDA r :
          IF ~r.ok THEN r ELSE select_loop(selectors, i + 1, r.ctx, r.items)))

\* DataWatch.select_data
select_data(w, ctx, data) ==
  select_loop(Attr(w, "selectors").l, 1, ctx, [i \in 1..Len(data) |-> Item(data[i])])

\* DataWatch.match_items, and TrueWatch.match_items
match_items(w, st, items) ==
  IF w.cls = "true" THEN [ok |-> TRUE, r |-> TRUE, cache |-> st.cache]
  ELSE IF Attr(w, "match").t = "none"
  THEN [ok |-> TRUE, r |-> Len(items) # 0, cache |-> st.cache]
  ELSE
    Bind(Load("match", Attr(w, "match").d), LAMBDA m :
      IF ~m.ok THEN m
      ELSE
        Bind(Match_match(m.obj, st.ctx, st.cache, items), LAMBDA r :
          [ok |-> TRUE, r |-> r.r, cache |-> r.cache]))

\* DataWatch.run with the data pushed on the watch's frame instead of set
\* as variables of the context
DataWatch_run_framed(w, st) ==
  Bind(Log(st, "fetch", w.hash, w.hash, "", NoOut), LAMBDA s0 :
  Bind(fetch_data(w, s0), LAMBDA f :
    IF ~f.ok THEN [st |-> s0, out |-> Exc(f.exc)]
    ELSE
      Bind(select_data(w, s0.ctx, f.data), LAMBDA sel :
        IF ~sel.ok THEN [st |-> [s0 EXCEPT !.ctx = sel.ctx], out |-> Exc(sel.exc)]
        ELSE
          Bind(sel.items, LAMBDA data :
          Bind(push_variable(sel.ctx, w.hash, VL(data)), LAMBDA c1 :
          Bind(IF Attr(w, "store").t # "none"
               THEN push_variable(c1, Attr(w, "store").s, VL(data)) ELSE c1, LAMBDA c2 :
          Bind([s0 EXCEPT !.ctx = push_variable(c2, "data", VL(data))], LAMBDA s1 :
          Bind(match_items(w, s1, data), LAMBDA m :
            IF ~m.ok THEN [st |-> s1, out |-> Exc(m.exc)]
            ELSE [st |-> [s1 EXCEPT !.cache = m.cache],
                  out |-> IF m.r
                          THEN Ret(TRUE, get_comment(w, s1.ctx), get_data(w, s1.ctx))
                          ELSE NoTrigger]))))))))
\* DataWatch.run
DataWatch_run(w, st) ==
  Bind(Log(st, "fetch", w.hash, w.hash, "", NoOut), LAMBDA s0 :
  Bind(fetch_data(w, s0), LAMBDA f :
    IF ~f.ok THEN [st |-> s0, out |-> Exc(f.exc)]
    ELSE
      Bind(select_data(w, s0.ctx, f.data), LAMBDA sel :
        IF ~sel.ok THEN [st |-> [s0 EXCEPT !.ctx = sel.ctx], out |-> Exc(sel.exc)]
        ELSE
          Bind(sel.items, LAMBDA data :
          Bind(set_variable(sel.ctx, w.hash, VL(data)), LAMBDA c1 :
          Bind(IF Attr(w, "store").t # "none"
               THEN set_variable(c1, Attr(w, "store").s, VL(data)) ELSE c1, LAMBDA c2 :
          Bind([s0 EXCEPT !.ctx = set_variable(c2, "data", VL(data))], LAMBDA s1 :
          Bind(match_items(w, s1, data), LAMBDA m :
            IF ~m.ok THEN [st |-> s1, out |-> Exc(m.exc)]
            ELSE [st |-> [s1 EXCEPT !.cache = m.cache],
                  out |-> IF m.r
                          THEN Ret(TRUE, get_comment(w, s1.ctx), get_data(w, s1.ctx))
                          ELSE NoTrigger]))))))))

\* the watches a MultipleWatch generates, as the configurations its gen
\* loads one by one: GroupWatch.gen and OnceWatch.gen
GenConfigs(w) ==
  CASE w.cls = "group" -> Attr(w, "group").l
    [] w.cls = "once" -> <<Attr(w, "once")>>

\* MultipleWatch.run without the early exit: every child is processed
AllEarlyExit_never(operator, _trigger) == FALSE

\* MultipleWatch.run with the early exit under every operator
AllEarlyExit_always(operator, _trigger) == ~_trigger

\* MultipleWatch.run: the early exit of the ALL operator
AllEarlyExit(operator, _trigger) == operator \in OPERATOR_ALL /\ ~_trigger

\* the end of MultipleWatch.run with `last` reduced to the comment and data
\* only: the trigger stays the OR of the children's
MultipleWatch_finish_or(w, acc, st) ==
  LET op == Attr(w, "operator").s
      comment == IF op = OPERATOR_LAST
                 THEN (IF Len(acc.comment) > 0
                       THEN <<acc.comment[Len(acc.comment)]>> ELSE <<>>)
                 ELSE acc.comment
      data == IF op = OPERATOR_LAST
              THEN (IF Len(acc.data) > 0 THEN <<acc.data[Len(acc.data)]>> ELSE <<>>)
              ELSE acc.data
      comment2 == IF Attr(w, "comment").t # "none"
                  THEN get_comment(w, st.ctx) \o <<VL(comment)>> ELSE comment
  IN [st |-> st, out |-> Ret(acc.trigger, comment2, data)]

\* the end of MultipleWatch.run with ALL as "no child failed to trigger"
MultipleWatch_finish_vacuous(w, acc, st) ==
  LET op == Attr(w, "operator").s
      comment == IF op = OPERATOR_LAST
                 THEN (IF Len(acc.comment) > 0
                       THEN <<acc.comment[Len(acc.comment)]>> ELSE <<>>)
                 ELSE acc.comment
      data == IF op = OPERATOR_LAST
              THEN (IF Len(acc.data) > 0 THEN <<acc.data[Len(acc.data)]>> ELSE <<>>)
              ELSE acc.data
      trigger == IF op = OPERATOR_LAST THEN acc.last
                 ELSE IF op \in OPERATOR_ALL THEN TRUE ELSE acc.trigger
      comment2 == IF Attr(w, "comment").t # "none"
                  THEN get_comment(w, st.ctx) \o <<VL(comment)>> ELSE comment
  IN [st |-> st, out |-> Ret(trigger, comment2, data)]
\* the end of MultipleWatch.run, after the loop over gen
MultipleWatch_finish(w, acc, st) ==
  LET op == Attr(w, "operator").s
      comment == IF op = OPERATOR_LAST
                 THEN (IF Len(acc.comment) > 0
                       THEN <<acc.comment[Len(acc.comment)]>> ELSE <<>>)
                 ELSE acc.comment
      data == IF op = OPERATOR_LAST
              THEN (IF Len(acc.data) > 0 THEN <<acc.data[Len(acc.data)]>> ELSE <<>>)
              ELSE acc.data
      trigger == IF op = OPERATOR_LAST THEN acc.last ELSE acc.trigger
      comment2 == IF Attr(w, "comment").t # "none"
                  THEN get_comment(w, st.ctx) \o <<VL(comment)>> ELSE comment
  IN [st |-> st, out |-> Ret(trigger, comment2, data)]

\* Watch.process with the `before` loop outside the try block's control
\* flow: self.run is reached whatever the hooks did
BeforeAborts_never(before_out) == FALSE

\* Watch.process: the `before` loop sits in the try block with self.run, so
\* an exception of a before hook leaves the block before self.run
BeforeAborts(before_out) == before_out.kind = "raise"

\* Watch.process without the inner try of the finally block: the exception
\* of an after hook replaces the outcome of the try block
ProcessResult_propagating(run_out, after_out, popped) ==
  IF after_out.kind = "raise" THEN after_out
  ELSE IF ~popped.ok THEN Exc(popped.exc)
  ELSE IF run_out.kind = "raise" THEN run_out
  ELSE IF ~run_out.trigger THEN NoTrigger
  ELSE run_out

\* Watch.process: what the call gives its caller; run_out is the outcome of
\* the try block, after_out that of the `after` loop, popped that of
\* pop_frame.  The exception of an after hook is logged and dropped.
ProcessResult(run_out, after_out, popped) ==
  IF ~popped.ok THEN Exc(popped.exc)
  ELSE IF run_out.kind = "raise" THEN run_out
  ELSE IF ~run_out.trigger THEN NoTrigger
  ELSE run_out

\* OnceWatch.process recording its key after every inner run
OnceRecords_always(out) == TRUE

\* OnceWatch.process: `if trigger: cache.put_entry(hash_key, True)`
OnceRecords(out) == out.kind = "ret" /\ out.trigger

\* TemplateWatch.replace_body: [replaced, v] or the exception.  A template
\* that is {body: x} alone is replaced by the body (merged with x); else
\* the first dict among its values in which a replacement happens
RECURSIVE replace_body(_, _), replace_scan(_, _, _)
replace_body(template, body) ==
  IF Len(template) = 1 /\ template[1][1] = "body"
  THEN LET tb == template[1][2]
       IN IF tb.t = "none" THEN [ok |-> TRUE, replaced |-> TRUE, v |-> body]
          ELSE IF tb.t = "list" /\ body.t = "list"
          THEN [ok |-> TRUE, replaced |-> TRUE, v |-> VL(tb.l \o body.l)]
          ELSE IF tb.t = "dict" /\ body.t = "dict"
          THEN [ok |-> TRUE, replaced |-> TRUE, v |-> VD(DictMerge(tb.d, body.d))]
          ELSE Raise("WatchException")
  ELSE replace_scan(template, body, 1)
replace_scan(template, body, i) ==
  IF i > Len(template) THEN [ok |-> TRUE, replaced |-> FALSE, v |-> VD(template)]
  ELSE IF template[i][2].t # "dict" THEN replace_scan(template, body, i + 1)
  ELSE Bind(replace_body(template[i][2].d, body), LAMBDA r :
         IF ~r.ok THEN r
         ELSE IF r.replaced
         THEN [ok |-> TRUE, replaced |-> TRUE,
               v |-> VD([template EXCEPT ![i] = <<template[i][1], r.v>>])]
         ELSE replace_scan(template, body, i + 1))

\* the loop of TemplateWatch.render_template over the template names, later
\* templates taking precedence
RECURSIVE merge_templates(_, _, _)
merge_templates(known, names, acc) ==
  IF Len(names) = 0 THEN [ok |-> TRUE, d |-> acc]
  ELSE IF known.t # "dict" THEN Raise("AttributeError")
  ELSE IF DictGet(known.d, Head(names).s).t = "none" THEN Raise("WatchException")
  ELSE IF DictGet(known.d, Head(names).s).t # "dict" THEN Raise("TypeError")
  ELSE merge_templates(known, Tail(names), DictMerge(acc, DictGet(known.d, Head(names).s).d))

\* TemplateWatch.render_template(ctx, templates, body): the configuration
\* of the watch to instantiate
render_template(ctx, templates, body0) ==
  Bind(IF PyBool(body0) THEN body0 ELSE VD(<<>>), LAMBDA body :
  Bind(merge_templates(get_variable(ctx, "templates"), templates, <<>>), LAMBDA m :
    IF ~m.ok THEN m
    ELSE
      Bind(replace_body(m.d, body), LAMBDA r :
        IF ~r.ok \/ r.replaced THEN r
        ELSE IF body.t # "dict" THEN Raise("TypeError")
        ELSE IF get_type("watch", m.d).ok
        THEN [ok |-> TRUE, replaced |-> FALSE, v |-> VD(DictMerge(m.d, body.d))]
        ELSE [ok |-> TRUE, replaced |-> FALSE,
              v |-> VD(DictMerge(DictMerge(body.d, m.d), body.d))])))

\* TemplateWatch.gen up to Watch.load: the rendered template, checked
\* against its `requires` and without that key
TemplateGen(w, ctx) ==
  Bind(render_template(ctx, Attr(w, "template").l,
                       IF PyBool(Attr(w, "body")) THEN Attr(w, "body") ELSE Attr(w, "kwargs")),
       LAMBDA r :
    IF ~r.ok THEN r
    ELSE IF r.v.t # "dict" THEN Raise("TypeError")
    ELSE IF ~DictHas(r.v.d, "requires") THEN [ok |-> TRUE, v |-> r.v]
    ELSE IF DictGet(r.v.d, "requires").t # "list" THEN Raise("TypeError")
    ELSE IF \E i \in 1..Len(DictGet(r.v.d, "requires").l) :
              ~(/\ DictGet(r.v.d, "requires").l[i].t = "str"
                /\ DictHas(Attr(w, "variables").d, DictGet(r.v.d, "requires").l[i].s))
    THEN Raise("WatchException")
    ELSE [ok |-> TRUE, v |-> VD(DictDel(r.v.d, "requires"))])

\* ConditionalWatch.gen yielding `then` and, where configured, `else`
\* whatever the condition gave
CondBranch_both(w, trigger) ==
  <<Attr(w, "then")>> \o (IF Attr(w, "else").t # "none" THEN <<Attr(w, "else")>> ELSE <<>>)

\* ConditionalWatch.gen after the condition: the configuration it loads
\* and yields, `then` on a trigger, `else` otherwise if there is one
CondBranch(w, trigger) ==
  IF trigger THEN <<Attr(w, "then")>>
  ELSE IF Attr(w, "else").t # "none" THEN <<Attr(w, "else")>>
  ELSE <<>>

RECURSIVE Process(_, _), Watch_process(_, _), OnceWatch_process(_, _),
          TemplateWatch_process(_, _),
          RunHooks(_, _, _, _), Watch_run(_, _), MultipleWatch_loop(_, _, _, _, _),
          GenStart(_, _)

\* gen up to its first yield: what it will iterate over.  GroupWatch.gen
\* and OnceWatch.gen go over configurations; ConditionalWatch.gen loads
\* and processes the condition group and goes over `then` or `else`;
\* LoopWatch.gen loads and
\* processes the `loop` watch and, if that triggered, goes over the items
\* it left in the context under its hash
GenStart(w, st) ==
  IF w.cls \in {"group", "once"} THEN [ok |-> TRUE, kids |-> GenConfigs(w), st |-> st]
  ELSE IF w.cls = "template"
  THEN Bind(TemplateGen(w, st.ctx), LAMBDA t :
         IF ~t.ok THEN [ok |-> FALSE, exc |-> t.exc, st |-> st]
         ELSE [ok |-> TRUE, kids |-> <<t.v>>, st |-> st])
  ELSE IF w.cls = "conditional"
  THEN
    Bind(Load("watch", << <<"group", Attr(w, "conditional")>>,
                          <<"operator", Attr(w, "operator")>> >>), LAMBDA ld :
      IF ~ld.ok THEN [ok |-> FALSE, exc |-> ld.exc, st |-> st]
      ELSE
        Bind(Process(ld.obj, st), LAMBDA r :
          IF r.out.kind = "raise" THEN [ok |-> FALSE, exc |-> r.out.exc, st |-> r.st]
          ELSE [ok |-> TRUE,
                kids |-> CondBranch(w, r.out.trigger),
                st |-> Log(r.st, "cond", ld.obj.hash, w.hash, "", r.out)]))
  ELSE
    Bind(Load("watch", Attr(w, "loop").d), LAMBDA ld :
      IF ~ld.ok THEN [ok |-> FALSE, exc |-> ld.exc, st |-> st]
      ELSE
        Bind(Process(ld.obj, st), LAMBDA r :
          IF r.out.kind = "raise" THEN [ok |-> FALSE, exc |-> r.out.exc, st |-> r.st]
          ELSE IF ~r.out.trigger THEN [ok |-> TRUE, kids |-> <<>>, st |-> r.st]
          ELSE
            Bind(get_variable(r.st.ctx, ld.obj.hash), LAMBDA items :
              IF items.t # "list" THEN [ok |-> FALSE, exc |-> "TypeError", st |-> r.st]
              ELSE [ok |-> TRUE, kids |-> items.l, st |-> r.st])))

\* what one iteration of LoopWatch.gen pushes for the i-th item
LoopVars(w, kids, i, ctx) ==
  push_variable(push_variable(ctx, "index", VI(i - 1)), Attr(w, "as").s, kids[i].value)

\* gen up to its next yield: the i-th watch it generates.  LoopWatch.gen
\* pushes `index` and `<as>`, loads `do` and mixes the item into its hash
GenNext(w, kids, i, st) ==
  IF w.cls # "loop"
  THEN (IF kids[i].t # "dict" THEN [ok |-> FALSE, exc |-> "TypeError", st |-> st]
        ELSE Bind(Load("watch", kids[i].d), LAMBDA ld :
               IF ~ld.ok THEN [ok |-> FALSE, exc |-> ld.exc, st |-> st]
               ELSE [ok |-> TRUE, st |-> st,
                     obj |-> IF w.cls = "template"
                             THEN update_hash(ld.obj, Attr(w, "variables"))
                             ELSE ld.obj]))
  ELSE IF ~IsItem(kids[i]) THEN [ok |-> FALSE, exc |-> "AttributeError", st |-> st]
  ELSE
    Bind([st EXCEPT !.ctx = LoopVars(w, kids, i, @)], LAMBDA s1 :
    Bind(Load("watch", Attr(w, "do").d), LAMBDA ld :
      IF ~ld.ok THEN [ok |-> FALSE, exc |-> ld.exc, st |-> s1]
      ELSE
        Bind(update_hash(ld.obj, VD(<< <<Attr(w, "as").s, kids[i].value>> >>)), LAMBDA obj :
          [ok |-> TRUE, obj |-> obj,
           st |-> Log(s1, "iter", obj.hash, w.hash, ToString(i - 1),
                      [kind |-> "item", as |-> Attr(w, "as").s,
                       value |-> kids[i].value])])))

\* gen resumed after a yield: LoopWatch.gen pops what it pushed
GenResume(w, st) ==
  IF w.cls # "loop" THEN st
  ELSE [st EXCEPT !.ctx = pop_variable(pop_variable(@, "index"), Attr(w, "as").s)]

\* the loop of MultipleWatch.run from the i-th generated watch on; acc is
\* (trigger, _trigger, comment, data)
MultipleWatch_loop(w, kids, i, acc, st) ==
  IF i > Len(kids) THEN MultipleWatch_finish(w, acc, st)
  ELSE
    Bind(GenNext(w, kids, i, st), LAMBDA ld :
      IF ~ld.ok THEN [st |-> ld.st, out |-> Exc(ld.exc)]
      ELSE
        Bind(Process(ld.obj, Log(ld.st, "load", ld.obj.hash, w.hash,
                                 Attr(w, "operator").s, NoOut)), LAMBDA r0 :
        Bind([r0 EXCEPT !.st = Log(@, "result", ld.obj.hash, w.hash,
                                   Attr(w, "operator").s, r0.out)], LAMBDA r :
          IF r.out.kind = "raise" THEN r
          ELSE IF AllEarlyExit(Attr(w, "operator").s, r.out.trigger)
          THEN [st |-> r.st, out |-> NoTrigger]
          ELSE
            Bind([trigger |-> acc.trigger \/ r.out.trigger,
                  last |-> r.out.trigger,
                  comment |-> IF r.out.trigger THEN acc.comment \o r.out.comment
                              ELSE acc.comment,
                  data |-> IF r.out.trigger THEN acc.data \o r.out.data
                           ELSE acc.data], LAMBDA acc1 :
              IF ~r.out.trigger /\ Attr(w, "operator").s = OPERATOR_BREAK
              THEN MultipleWatch_finish(w, acc1, r.st)
              ELSE MultipleWatch_loop(w, kids, i + 1, acc1, GenResume(w, r.st))))))

\* self.run(ctx) by class: DataWatch.run, MultipleWatch.run, and the test
\* suite's ThrowWatch.run
Watch_run(w, st) ==
  CASE w.cls \in DataClasses -> DataWatch_run(w, st)
    [] w.cls \in MultipleClasses ->
         Bind(GenStart(w, st), LAMBDA g :
           IF ~g.ok THEN [st |-> g.st, out |-> Exc(g.exc)]
           ELSE MultipleWatch_loop(w, g.kids, 1,
                                   [trigger |-> FALSE, last |-> FALSE,
                                    comment |-> <<>>, data |-> <<>>], g.st))
    [] w.cls = "throw" -> [st |-> st, out |-> Exc("WatchException")]

\* the `before` and the `after` loop of Watch.process from the i-th hook
\* on: each hook is loaded with its match set to None and processed; the
\* first exception ends the loop
RunHooks(w, hooks, i, st) ==
  IF i > Len(hooks) THEN [st |-> st, out |-> NoTrigger]
  ELSE
    Bind(Log(st, "hook", "", w.hash, "", NoOut), LAMBDA s0 :
    Bind(Load("watch", DictSet(hooks[i].d, "match", VNone)), LAMBDA ld :
      IF ~ld.ok
      THEN [st |-> Log(s0, "hookresult", "", w.hash, "", Exc(ld.exc)),
            out |-> Exc(ld.exc)]
      ELSE
        Bind(Process(ld.obj, s0), LAMBDA r0 :
        Bind([r0 EXCEPT !.st = Log(@, "hookresult", ld.obj.hash, w.hash, "", r0.out)],
             LAMBDA r :
          IF r.out.kind = "raise" THEN r
          ELSE RunHooks(w, hooks, i + 1, r.st)))))

\* Watch.process
Watch_process(w, st) ==
  Bind(RunHooks(w, Attr(w, "before").l, 1,
                Log([st EXCEPT !.ctx = push_variable(push_frame(@, w.hash),
                                                     "hash", VS(w.hash))],
                    "enter", w.hash, w.hash, "", NoOut)), LAMBDA b :
  Bind(IF BeforeAborts(b.out) THEN b
       ELSE Watch_run(w, Log(b.st, "run", w.hash, w.hash,
                             PyStr(Attr(w, "operator")), NoOut)), LAMBDA r :
  Bind(RunHooks(w, Attr(w, "after").l, 1,
                Log(r.st, "after", w.hash, w.hash,
                    ToString(Len(Attr(w, "after").l)), r.out)), LAMBDA a :
  Bind(pop_frame(a.st.ctx, w.hash), LAMBDA p :
  Bind(ProcessResult(r.out, a.out, p), LAMBDA out :
    [st |-> Log([a.st EXCEPT !.ctx = p.ctx], "exit", w.hash, w.hash, "", out),
     out |-> out])))))

\* the effective key of a OnceWatch
OnceKey(w, ctx) ==
  IF Attr(w, "key").t # "none" THEN expand_context(ctx, Attr(w, "key").s)
  ELSE w.hash \o "-once"

\* OnceWatch.process
OnceWatch_process(w, st) ==
  Bind(OnceKey(w, st.ctx), LAMBDA hash_key :
    IF has_entry(st.cache, hash_key)
    THEN [st |-> Log(st, "skip", w.hash, w.hash, "", NoOut), out |-> NoTrigger]
    ELSE
      Bind(Watch_process(w, st), LAMBDA r :
        IF OnceRecords(r.out)
        THEN [st |-> [r.st EXCEPT !.cache = put_entry(@, hash_key, VB(TRUE))],
              out |-> r.out]
        ELSE r))

\* ctx.push_variable(k, v) for the items of a dict, in order
RECURSIVE PushAll(_, _)
PushAll(d, ctx) ==
  IF Len(d) = 0 THEN ctx
  ELSE PushAll(Tail(d), push_variable(ctx, Head(d)[1], Head(d)[2]))

\* ctx.pop_variable(k) for keys in order; a key the top frame does not hold
\* raises KeyError and ends the loop
RECURSIVE PopAll(_, _)
PopAll(keys, ctx) ==
  IF Len(keys) = 0 THEN [ok |-> TRUE, ctx |-> ctx]
  ELSE IF ~DictHas(ctx.frames[Len(ctx.frames)].vars, Head(keys))
  THEN [ok |-> FALSE, exc |-> "KeyError", ctx |-> ctx]
  ELSE PopAll(Tail(keys), pop_variable(ctx, Head(keys)))

\* the `finally` of TemplateWatch.process: the keys of `variables` popped
TemplatePop(keys, ctx) == PopAll(keys, ctx)

\* TemplateWatch.process
TemplateWatch_process(w, st) ==
  Bind(expand_value(st.ctx, Attr(w, "variables")).d, LAMBDA ex_variables :
  Bind(Watch_process(w, Log([st EXCEPT !.ctx = PushAll(ex_variables, @)],
                            "push", w.hash, w.hash, "",
                            [kind |-> "vars", vars |-> ex_variables])), LAMBDA r :
  Bind(TemplatePop(DictKeys(Attr(w, "variables").d), r.st.ctx), LAMBDA p :
  Bind(IF p.ok THEN r.out ELSE Exc(p.exc), LAMBDA out :
    [st |-> Log([r.st EXCEPT !.ctx = p.ctx], "pop", w.hash, w.hash, "", out),
     out |-> out]))))

\* watch.process(ctx), dispatched on the class of the watch
Process(w, st) ==
  IF w.cls = "once" THEN OnceWatch_process(w, st)
  ELSE IF w.cls = "template" THEN TemplateWatch_process(w, st)
  ELSE Watch_process(w, st)

(***************************************************************************)
(* Watch.execute                                                           *)
(***************************************************************************)
FailureThresholds == {3, 10, 25, 50}
Done == [kind |-> "done"]

\* [Action.load(**x) for x in actions]: the loaded actions, or the first
\* exception
RECURSIVE LoadActions(_, _)
LoadActions(configs, loaded) ==
  IF Len(configs) = 0 THEN [ok |-> TRUE, objs |-> loaded]
  ELSE IF Head(configs).t # "dict" THEN Raise("TypeError")
  ELSE
    Bind(Load("action", Head(configs).d), LAMBDA ld :
      IF ~ld.ok THEN ld ELSE LoadActions(Tail(configs), Append(loaded, ld.obj)))

\* `for action in actions: action.report(ctx, action_data)`, and the same
\* loop over action.error; x is what the message reports
RECURSIVE Dispatch(_, _, _, _, _)
Dispatch(st, e, actions, w, x) ==
  IF Len(actions) = 0 THEN st
  ELSE Dispatch(Log(st, e, Head(actions).hash, w.hash, x, NoOut), e, Tail(actions), w, x)

\* the `except` branch of Watch.execute: failure_count is the entry as
\* cached, None when there is none, and None + 1 raises TypeError
Watch_execute_failure(w, st, actions) ==
  Bind(get_entry(st.cache, w.hash \o "-failures"), LAMBDA failure_count :
    IF failure_count.t # "int" THEN [st |-> st, out |-> Exc("TypeError")]
    ELSE
      Bind([st EXCEPT !.cache = put_entry(@, w.hash \o "-failures",
                                          VI(failure_count.i + 1))], LAMBDA s1 :
        [st |-> IF failure_count.i \in FailureThresholds
                THEN Dispatch(s1, "error", actions, w, ToString(failure_count.i))
                ELSE s1,
         out |-> Done]))

\* the `else` branch of Watch.execute without its `if trigger`
Watch_execute_success_eager(w, st, actions, out) ==
  Bind([st EXCEPT !.cache = put_entry(@, w.hash \o "-failures", VI(0))], LAMBDA s1 :
    [st |-> Dispatch([s1 EXCEPT !.cache =
                        put_entry(@, w.hash \o "-triggered",
                                  get_variable(s1.ctx, "starttime"))],
                     "report", actions, w, ""),
     out |-> Done])

\* the `else` branch of Watch.execute
Watch_execute_success(w, st, actions, out) ==
  Bind([st EXCEPT !.cache = put_entry(@, w.hash \o "-failures", VI(0))], LAMBDA s1 :
    IF out.trigger
    THEN [st |-> Dispatch([s1 EXCEPT !.cache =
                             put_entry(@, w.hash \o "-triggered",
                                       get_variable(s1.ctx, "starttime"))],
                          "report", actions, w, ""),
          out |-> Done]
    ELSE [st |-> s1, out |-> Done])

\* Watch.execute; pout is the outcome of self.process, and the "execute"
\* event holds the `-executed` entry as self.process finds it
Watch_execute(w, st, config, starttime) ==
  Bind([st EXCEPT !.ctx = set_variable(@, "starttime", VI(starttime))], LAMBDA s0 :
  Bind(LoadActions(Attr(w, "actions").l, <<>>), LAMBDA own :
    IF ~own.ok THEN [st |-> s0, out |-> Exc(own.exc), pout |-> NoOut, actions |-> <<>>]
    ELSE
      Bind(IF DictHas(config, "default_actions")
           THEN (IF DictGet(config, "default_actions").t = "list"
                 THEN LoadActions(DictGet(config, "default_actions").l, <<>>)
                 ELSE Raise("TypeError"))
           ELSE [ok |-> TRUE, objs |-> <<>>], LAMBDA dflt :
      Bind(IF dflt.ok THEN own.objs \o dflt.objs ELSE own.objs, LAMBDA actions :
      Bind([s0 EXCEPT !.cache = put_entry(@, w.hash \o "-executed",
                                          get_variable(s0.ctx, "starttime"))], LAMBDA s1 :
      Bind(Process(w, Log(s1, "execute", w.hash, w.hash, "",
                          get_entry(s1.cache, w.hash \o "-executed"))), LAMBDA r :
      Bind(IF r.out.kind = "raise" THEN Watch_execute_failure(w, r.st, actions)
           ELSE Watch_execute_success(w, r.st, actions, r.out), LAMBDA e :
        [st |-> e.st, out |-> e.out, pout |-> r.out, actions |-> actions])))))))

(***************************************************************************)
(* render_comment.  A rendered comment is the sequence of its lines, each  *)
(* with the number of indent units ("  ") before its text.                 *)
(***************************************************************************)
MultiLine == "h2\nh3"
\* str.splitlines on the comments of the configurations
splitlines(x) ==
  CASE x = "" -> <<>>
    [] x = MultiLine -> <<"h2", "h3">>
    [] OTHER -> <<x>>

Line(indent, text) == [indent |-> indent, text |-> text]
\* indent * "  " + ("\n" + indent * "  ").join(x.splitlines())
Indented(x, indent) ==
  IF Len(splitlines(x)) = 0 THEN <<Line(indent, "")>>
  ELSE [k \in 1..Len(splitlines(x)) |-> Line(indent, splitlines(x)[k])]

\* len(_output) = 0 for a rendering: no line, or one line without a character
IsEmptyStr(lines) == lines = <<>> \/ lines = <<Line(0, "")>>

\* render_comment; render_from is its loop from element i on, with _indent
\* as the elements before i left it
RECURSIVE render_comment(_, _), render_from(_, _, _, _)
render_from(comments, indent, _indent, i) ==
  IF i > Len(comments) THEN <<>>
  ELSE IF comments[i].t = "str"
       THEN Indented(comments[i].s, indent)
              \o render_from(comments, indent, IF i = 1 THEN _indent + 1 ELSE _indent, i + 1)
       ELSE Bind(render_comment(comments[i].l, _indent), LAMBDA _output :
              (IF IsEmptyStr(_output) THEN <<>> ELSE _output)
                \o render_from(comments, indent, _indent, i + 1))
render_comment(comments, indent) == render_from(comments, indent, indent, 1)

\* the action_data that Watch.execute hands to the actions' report
action_data(out) == [comment |-> render_comment(out.comment, 0), data |-> out.data]

(***************************************************************************)
(* The configurations the model runs: watch and match configurations as    *)
(* the YAML of a watch file gives them, built from the watches of the test *)
(* suite and a cmd watch.                                                  *)
(***************************************************************************)
MaxKids == 2
MaxFailures == 11
MaxTime == 1
MaxFrames == 2
MaxVars == 3

Seqs(S, n) == UNION {[1..k -> S] : k \in 0..n}
Dicts(l) == VL([i \in 1..Len(l) |-> VD(l[i])])

MatchOf(cls) == <<"match", VD(<< <<"type", VS(cls)>> >>)>>
CTrue == << <<"type", VS("count")>>, MatchOf("true") >>
CFalse == << <<"type", VS("count")>>, MatchOf("false") >>
CThrow == << <<"type", VS("throw")>> >>
CmdHello == "echo hello"
CmdWorld == "echo world"
Cmds == {CmdHello, CmdWorld}
CHello == << <<"cmd", VS(CmdHello)>>, MatchOf("cache") >>
CWorld == << <<"cmd", VS(CmdWorld)>>, MatchOf("cache") >>
CKeyed == << <<"cmd", VS(CmdHello)>>, <<"match", VD(<< <<"cache", VS("k1")>> >>)>> >>
CNoted == << <<"cmd", VS(CmdWorld)>>, <<"comment", VS("world")>>, MatchOf("cache") >>

Group(op, kids) == << <<"group", Dicts(kids)>>, <<"operator", VS(op)>> >>
Once(inner) == << <<"once", VD(inner)>> >>
OnceKeyed(inner, key) == << <<"once", VD(inner)>>, <<"key", VS(key)>> >>
WithHooks(c, before, after) ==
  c \o (IF Len(before) > 0 THEN << <<"before", Dicts(before)>> >> ELSE <<>>)
    \o (IF Len(after) > 0 THEN << <<"after", Dicts(after)>> >> ELSE <<>>)

Leaves == {CTrue, CFalse, CThrow, CHello}
GroupOps == {"all", "and", "any", "or", "last"}
Groups ==
  {Group(op, kids) : op \in GroupOps, kids \in Seqs({CTrue, CFalse, CThrow}, MaxKids)}
    \cup {Group("all", <<CHello, CTrue>>), Group("last", <<CTrue, CHello>>)}
HookLists == {<<>>, <<CTrue>>, <<CThrow>>, <<CFalse, CThrow>>}
Hooked ==
  {WithHooks(c, b, a) : c \in {CTrue, CFalse, CThrow, Group("all", <<CFalse, CTrue>>)},
                        b \in HookLists, a \in HookLists}
Onces ==
  {Once(c) : c \in Leaves} \cup {OnceKeyed(c, "k2") : c \in Leaves}
    \cup {WithHooks(Once(CTrue), <<>>, <<CTrue>>),
          Group("all", <<Once(CTrue), CTrue>>),
          Group("any", <<Group("all", <<CFalse, CThrow>>), Once(CHello)>>)}
TreeConfigs == Groups \cup Hooked \cup Onces

MatchWatches == {CHello, CWorld, CKeyed, CNoted}
MatchConfigs ==
  { << <<"type", VS("cache")>> >>, << <<"cache", VS("k1")>> >>,
    << <<"cache", VS(TemplateHash)>> >>,
    << <<"type", VS("cache")>>, <<"empty", VB(TRUE)>> >> }
ItemLists == {<<>>, <<Item(VY("a"))>>, <<Item(VY("a")), Item(VY("b"))>>}
CallerHashes == {"w1", "w2"}

LogWarning == << <<"type", VS("log")>>, <<"level", VS("warning")>> >>
LogInfo == << <<"type", VS("log")>> >>
XHello == << <<"cmd", VS(CmdHello)>>, MatchOf("cache"), <<"comment", VS("hello")>>,
             <<"actions", Dicts(<<LogWarning>>)>> >>
XCount == << <<"type", VS("count")>>, <<"action_data", VD(<<>>)>> >>
ExecRoots == {XHello, XCount}
Configs == {<<>>, << <<"default_actions", Dicts(<<LogInfo>>)>> >>}
HashOf(c) == Load("watch", c).obj.hash

\* what the calls on a bare Context and a bare Selector are made with
FrameIds == {"f", "g"}
CtxKeys == {"x", "y"}
CtxValues == {VI(1), VI(2)}
ItemsAB == <<Item(VY("a")), Item(VY("b"))>>
SelectorConfigs ==
  { << <<"slice", VI(1)>>, <<"store", VS("x")>> >>,
    << <<"type", VS("join")>>, <<"sep", VS("-")>>, <<"store", VS("x")>> >>,
    << <<"slice", VI(1)>> >> }
\* trees of commented and data-reporting watches, and loops
Noted(c, comment) == c \o << <<"comment", VS(comment)>> >>
WithData(c) == c \o << <<"action_data", VD(<<>>)>> >>
Static(data) == << <<"type", VS("static")>>, <<"data", VL(data)>> >>
KA == Noted(WithData(CTrue), "a")
KB == Noted(WithData(Static(<<VS("b")>>)), "b")
KF == Noted(WithData(CFalse), "f")
SubG == Noted(Group("any", <<KA, KB>>), "hdr")
Loop(gen, do, rest) == << <<"loop", VD(gen)>>, <<"do", VD(do)>> >> \o rest
GenAB == Static(<<VS("a"), VS("b")>>)
GenRange == << <<"range", VI(2)>> >>
Operator(op) == << <<"operator", VS(op)>> >>
DoCache == Noted(Static(<<VS(TemplateLoop)>>) \o <<MatchOf("cache")>>, TemplateLoop)
DoIndex == Noted(WithData(CTrue), TemplateIndex)
DoFalse == Static(<<>>)
NestedGroups ==
  {Group(op, kids) : op \in {"any", "or", "last"}, kids \in Seqs({KA, KB, KF}, MaxKids)}
    \cup {Group("any", <<KA, CThrow, KB>>), Group("last", <<CThrow, KA>>),
          Noted(Group("any", <<KA, KF, KB>>), "top"), Noted(Group("or", <<KF>>), "top"),
          Group("last", <<KA, SubG>>), Group("last", <<SubG, KF>>),
          Group("all", <<KA, SubG>>), Group("any", <<SubG, Group("last", <<KB, KA>>)>>)}
\* data watches that store what they select, with selectors and hooks
StoreData == {<<VS("a"), VS("b")>>, <<VS("a")>>, <<>>}
StoreNames == {<<>>, << <<"store", VS("VALUE")>> >>, << <<"store", VS("data")>> >>}
StoreSelectors ==
  {<<>>, << <<"slice", VI(1)>> >>,
   << <<"type", VS("join")>>, <<"sep", VS("-")>> >>,
   << <<"slice", VI(1)>>, <<"store", VS("x")>> >>}
StoreHooks ==
  {<<>>, <<Static(<<VS("z")>>)>>, <<CThrow>>,
   <<Static(<<VS("z")>>) \o << <<"store", VS("VALUE")>> >> >>}
StoreMatches == {<<>>, <<MatchOf("false")>>}
Stored(data, store, selector, match, after) ==
  WithHooks(Static(data) \o store \o match
              \o (IF Len(selector) > 0 THEN << <<"selectors", Dicts(<<selector>>)>> >> ELSE <<>>),
            <<>>, after)
StoreConfigs ==
  {Stored(data, store, selector, match, after) :
     data \in StoreData, store \in StoreNames, selector \in StoreSelectors,
     match \in StoreMatches, after \in StoreHooks}
\* trees of commented groups, every comment a different text
Said(comment) == Noted(CTrue, comment)
Sub(kids, comment) == Noted(Group("any", kids), comment)
ReportRoots ==
  {Sub(<<Said("a"), Said("b")>>, "hdr"),
   Sub(<<Said("a"), Sub(<<Said("c"), Said("d")>>, "hdr2"), Said("b")>>, "hdr"),
   Sub(<<Sub(<<Sub(<<Said("e")>>, "hdr3")>>, "hdr2")>>, "hdr"),
   Sub(<<Said("a"), Sub(<<Said("c")>>, MultiLine)>>, "hdr"),
   Sub(<<CTrue, Sub(<<CTrue>>, "hdr2")>>, "hdr"),
   Sub(<<Said(""), Sub(<<CFalse>>, "hdr2")>>, "hdr"),
   Noted(Group("all", <<Said("a"), Sub(<<Said("c")>>, "hdr2")>>), "hdr"),
   Noted(Group("last", <<Said("a"), Sub(<<Said("c")>>, "hdr2")>>), "hdr"),
   Group("any", <<Group("last", <<Said("a"), Sub(<<Said("c")>>, "hdr2")>>),
                  Sub(<<Said("d")>>, "hdr3")>>),
   Sub(<<CFalse>>, "hdr")}
Loops ==
  {Loop(gen, do, <<>>) : gen \in {GenAB, GenRange}, do \in {DoCache, DoIndex, CThrow}}
    \cup {Loop(GenAB, DoIndex, Operator(op)) : op \in {"all", "last", "break"}}
    \cup {Loop(GenAB, DoCache, Operator(op)) : op \in {"all", "break"}}
    \cup {Loop(GenAB, Loop(GenRange, DoIndex, <<>>), <<>>),
          Loop(GenAB, Loop(GenRange, DoIndex, << <<"as", VS("x")>> >>), <<>>),
          Loop(GenRange, Group("any", <<KA, DoCache>>), << <<"as", VS("x")>> >>),
          Loop(DoFalse, DoIndex, <<>>),
          Group("any", <<Loop(GenAB, DoIndex, <<>>), KB>>)}
NestedHooked ==
  {WithHooks(KA, <<CThrow>>, <<>>), WithHooks(KA, <<>>, <<CThrow>>),
   WithHooks(CThrow, <<CTrue>>, <<CTrue>>), Once(CTrue),
   Group("any", <<Once(CHello), KA>>),
   WithHooks(Loop(GenAB, DoCache, Operator("all")), <<KA>>, <<CThrow>>)}
NestedConfigs == NestedGroups \cup Loops \cup NestedHooked
\* conditional watches over count and throw watches
Cond(conds, then, rest) ==
  << <<"conditional", Dicts(conds)>>, <<"then", VD(then)>> >> \o rest
Else(c) == << <<"else", VD(c)>> >>
Conds ==
  {Cond(conds, then, op \o else) :
     conds \in Seqs({CTrue, CFalse, CThrow}, MaxKids), then \in {KA, KF, CThrow},
     op \in {<<>>, Operator("or"), Operator("last")}, else \in {<<>>, Else(KB)}}
    \cup {WithHooks(Cond(<<CTrue>>, KA, Else(KB)), <<CThrow>>, <<>>),
          Cond(<<CTrue>>, KA, Operator("break")),
          Group("any", <<Cond(<<CFalse>>, KA, Else(KB)), Cond(<<CTrue>>, KA, Else(KB))>>)}
\* watches whose gen yields nothing, beside those whose gen yields
NoItems == Static(<<>>) \o <<MatchOf("true")>>
Childless ==
  {Group(op, <<>>) : op \in GroupOps}
    \cup {Noted(WithData(Group(op, <<>>)), "hdr") : op \in GroupOps}
    \cup {Loop(gen, DoIndex, Operator(op)) :
            gen \in {NoItems, DoFalse, CFalse, GenAB},
            op \in {"all", "and", "any", "or", "last", "break"}}
    \cup {Cond(<<>>, KA, Operator(op) \o else) : op \in GroupOps, else \in {<<>>, Else(KB)}}
    \cup {WithHooks(Group("all", <<>>), <<KA>>, <<KA>>)}
\* root watches with hooks, children and a fetch that may fail, and one
\* whose `actions` name no Action class
BadActions == WithData(CTrue) \o << <<"actions", Dicts(<< << <<"type", VS("nosuch")>> >> >>)>> >>
OrderRoots ==
  {WithHooks(Group("any", <<CHello, KA>>), <<CTrue>>, <<KA>>),
   WithHooks(CFalse, <<CThrow>>, <<>>),
   BadActions}
MaxFailed == 1
\* watches that push variables on their frame, with siblings after them
StoreX == Noted(Static(<<VS("a"), VS("b")>>), "s")
            \o << <<"selectors", Dicts(<< << <<"slice", VI(1)>>, <<"store", VS("x")>> >> >>)>> >>
ScopeConfigs ==
  {StoreX, Group("any", <<StoreX, KB>>), Group("any", <<WithHooks(KA, <<StoreX>>, <<>>), KB>>),
   Loop(GenAB, StoreX, <<>>),
   Group("any", <<Loop(GenAB, DoCache, Operator("all")), KB>>),
   Group("any", <<Loop(GenAB, DoCache, Operator("break")), KB>>),
   Group("any", <<Loop(GenAB, DoIndex, << <<"as", VS("x")>> >>), DoIndex>>),
   Group("any", <<Loop(GenAB, CThrow, <<>>), KB>>),
   WithHooks(KB, <<Loop(GenAB, CThrow, <<>>)>>, <<StoreX>>)}
ScopeKeys == {"hash", "index", "loop", "x"}
\* sub selectors over slice and join selectors with `store` and `input`
SubOf(selectors, rest) == << <<"sub", Dicts(selectors)>> >> \o rest
Slice1 == << <<"slice", VI(1)>> >>
JoinDash == << <<"type", VS("join")>>, <<"sep", VS("-")>> >>
Store(name) == << <<"store", VS(name)>> >>
Input(name) == << <<"input", VS(name)>> >>
SubConfigs ==
  {SubOf(<<Slice1>>, <<>>), SubOf(<<JoinDash, Slice1>>, <<>>),
   SubOf(<<JoinDash \o Store("x"), Slice1>>, <<>>),
   SubOf(<<Slice1 \o Store("x")>>, <<>>),
   SubOf(<<JoinDash \o Input("x")>>, <<>>),
   SubOf(<<Slice1, JoinDash \o Input("x")>>, <<>>),
   SubOf(<<JoinDash>>, Store("x")), SubOf(<<JoinDash>>, Input("x")),
   JoinDash \o Store("x"), JoinDash \o Input("x"), Slice1 \o Store("x")}
SubInputs == {ItemsAB, <<Item(VY("c"))>>, <<>>}
\* the templates of the `templates` variable, and invocations of them
Templates ==
  << <<"inner", VD(<< <<"type", VS("true")>>, <<"comment", VS(TemplateName)>> >>)>>,
     <<"outer", VD(<< <<"template", VS("inner")>>,
                      <<"variables", VD(<< <<"name", VS("in")>> >>)>> >>)>>,
     <<"needs", VD(<< <<"type", VS("true")>>, <<"requires", VL(<<VS("name")>>)>>,
                      <<"comment", VS(TemplateName)>> >>)>>,
     <<"wrap", VD(<< <<"group", VD(<< <<"body", VNone>> >>)>> >>)>> >>
Template(name, variables, rest) ==
  << <<"template", VS(name)>>, <<"variables", VD(variables)>> >> \o rest
VariableSets ==
  {<<>>} \cup {<< <<k, v>> >> : k \in {"name", "comment", TemplateName},
                               v \in {VS("a"), VS("b"), VI(1), VS("1")}}
TemplateConfigs ==
  {Template(name, variables, <<>>) :
     name \in {"inner", "outer", "needs", "nosuch"}, variables \in VariableSets}
    \cup {Template("wrap", <<>>, << <<"body", Dicts(<<KA, KB>>)>> >>),
          Group("any", <<Template("inner", << <<"name", VS("a")>> >>, <<>>)>>)}
\* what the frame of the caller may hold when the template is processed
HeldSets == {<<>>, << <<"name", VS("pre")>> >>}

\* what the calls on a Cache and on the cache selectors are made with
Paths == {"/tmp/cache.tar.gz", "cache.tar.gz"}
EncryptionKeys == {"", "key1", "key2"}
EntryKeys == {"entrykey"}
EntryValues == {VS("data"), VY("data")}
FileKeys == {"filekey"}
FileValues == {VY("data"), VY("")}
Keyed(value, key) == [Item(VY(value)) EXCEPT !.vars = << <<"key", VS(key)>> >>]
SelectorItems ==
  { <<>>, <<Item(VY("1")), Item(VY("2"))>>, <<Item(VY("2")), Item(VY("3")), Item(VY("2"))>>,
    <<Item(VY("3")), Item(VY("1")), Item(VY("2"))>>,
    <<Keyed("1", "a"), Keyed("2", "a"), Item(VY("1"))>>,
    <<Keyed("1", ""), Keyed("2", "a")>> }
CacheSelectorConfigs ==
  { << <<"type", VS("new")>>, <<"cache_key", VS("test_new")>> >>,
    << <<"since", VNone>> >> }

\* kwargs for Watch.load: with and without `type`, with the keys of
\* hash_skip and type_determination_skip, in different orders
TypeTrue == << <<"type", VS("true")>> >>
ActionData(d) == << <<"action_data", VD(d)>> >>
X1 == <<"x", VI(1)>>
Y2 == <<"y", VI(2)>>
Before == <<"before", Dicts(<<TypeTrue>>)>>
LoadKwargs ==
  { TypeTrue, Noted(TypeTrue, "a"), Noted(TypeTrue, "b"),
    << <<"comment", VS("a")>> >> \o TypeTrue,
    TypeTrue \o ActionData(<<X1, <<"comment", VS("a")>> >>),
    TypeTrue \o ActionData(<<X1>>),
    TypeTrue \o ActionData(<<X1, Y2>>), TypeTrue \o ActionData(<<Y2, X1>>),
    TypeTrue \o <<X1, Y2>>, TypeTrue \o <<Y2, X1>>,
    Group("any", <<Noted(TypeTrue, "a")>>), Group("any", <<TypeTrue>>),
    <<Before, <<"true", VNone>> >>, << <<"true", VNone>>, Before>>,
    <<Before, <<"nosuch", VI(1)>>, <<"true", VNone>> >>,
    << <<"comment", VS("a")>>, <<"true", VNone>> >>,
    << <<"nosuch", VI(1)>>, <<"true", VNone>> >>,
    << <<"true", VNone>>, <<"nosuch", VI(1)>> >> }

\* kwargs for Watch.load that differ in the type of a scalar and in the
\* structure of a list, in a field that load does not cast (`data` of a
\* static watch, `action_data`) and in the left-over `kwargs`
HashKwargs ==
  { TypeTrue \o <<X1>>, TypeTrue \o << <<"x", VS("1")>> >>, TypeTrue \o <<Y2>>,
    TypeTrue \o << <<"x", VL(<<VS("a"), VS("b")>>)>> >>,
    TypeTrue \o << <<"x", VL(<<VS("a,sb")>>)>> >>,
    TypeTrue \o ActionData(<<X1>>), TypeTrue \o ActionData(<< <<"x", VS("1")>> >>),
    Static(<<VS("a"), VS("b")>>), Static(<<VS("a,sb")>>),
    Static(<<VI(1)>>), Static(<<VS("1")>>), Static(<<VS("a")>>) }
LoadConfigs ==
  {Group(op, <<KA, KF, KB>>) : op \in GroupOps \cup {"break", "xor"}}
    \cup {Loop(GenAB, DoIndex, Operator(op)) : op \in {"break", "xor"}}

ExecHashes == {HashOf(c) : c \in ExecRoots}
MatchHashes == {HashOf(c) : c \in MatchWatches}

(***************************************************************************)
(* The state machine.  A call is made from the idle state against the      *)
(* cache as the calls before left it and with a context of its own; its    *)
(* result stays in `last` and `log` until Return.                          *)
(***************************************************************************)
VARIABLES cache, disk, ctx, world, now, log, last, pre, hist
vars == <<cache, disk, ctx, world, now, log, last, pre, hist>>

Idle == [op |-> "idle"]

Init ==
  /\ cache = EmptyCache
  /\ disk = NewDisk
  /\ ctx = NewContext
  /\ world = [c \in Cmds |-> "ok"]
  /\ now = 0
  /\ log = <<>>
  /\ last = Idle
  /\ pre = EmptyCache
  /\ hist = [evaluated |-> {}, processed |-> {}, streak |-> [h \in ExecHashes |-> 0]]

\* watch.process(ctx) on the root watch loaded from configuration c
\* the state after a call that ended in evaluation state r.st
Ends(r) ==
  /\ cache' = r.st.cache
  /\ ctx' = r.st.ctx
  /\ log' = r.st.log

Starts == [cache |-> cache, ctx |-> ctx, world |-> world, log |-> <<>>, snap |-> <<>>]

ProcessCall(c) ==
  /\ last.op = "idle"
  /\ Bind(Load("watch", c), LAMBDA ld :
       /\ ld.ok
       /\ Bind(Process(ld.obj, Starts), LAMBDA r :
            /\ Ends(r)
            /\ last' = [op |-> "process", w |-> ld.obj, out |-> r.out,
                        snap |-> r.st.snap]))
  /\ UNCHANGED <<disk, world, now, pre, hist>>

\* watch.process(ctx) on the root watch loaded from c, against a context
\* whose `templates` variable is set and whose frame holds `held`
TemplateCall(c, held) ==
  /\ last.op = "idle"
  /\ Bind(Load("watch", c), LAMBDA ld :
       /\ ld.ok
       /\ Bind(PushAll(held, set_variable(ctx, "templates", VD(Templates))), LAMBDA c0 :
          Bind(Process(ld.obj, [Starts EXCEPT !.ctx = c0]), LAMBDA r :
            /\ Ends(r)
            /\ last' = [op |-> "process", w |-> ld.obj, out |-> r.out,
                        snap |-> r.st.snap, ctx0 |-> c0])))
  /\ UNCHANGED <<disk, world, now, pre, hist>>

\* the effective key of a CacheMatch
MatchKey(m, c) ==
  IF Attr(m, "key").t # "none" THEN expand_context(c, Attr(m, "key").s)
  ELSE m.hash \o "-match"

\* match.match(ctx, items) as DataWatch.match_items calls it, in the frame
\* of a watch with hash h; `later` is what the same call answers next, on
\* the items ItemsAB
MatchCall(mc, h, items) ==
  /\ last.op = "idle"
  /\ Bind(Load("match", mc), LAMBDA ld :
       /\ ld.ok
       /\ Bind(push_variable(push_frame(ctx, h), "hash", VS(h)), LAMBDA c :
          Bind(Match_match(ld.obj, c, cache, items), LAMBDA r :
            /\ cache' = r.cache
            /\ last' = [op |-> "match", m |-> ld.obj, key |-> MatchKey(ld.obj, c),
                        items |-> items, r |-> r.r,
                        later |-> Match_match(ld.obj, c, r.cache, ItemsAB).r])))
  /\ UNCHANGED <<disk, ctx, world, now, log, pre, hist>>

\* watch.execute(ctx) on the root watch loaded from c, at time `now`
ExecuteCall(c, config) ==
  /\ last.op = "idle"
  /\ hist.streak[HashOf(c)] < MaxFailures
  /\ Bind(Load("watch", c), LAMBDA ld :
       /\ ld.ok
       /\ Bind(Watch_execute(ld.obj, Starts, config, now), LAMBDA r :
            /\ Ends(r)
            /\ last' = [op |-> "execute", w |-> ld.obj, out |-> r.out,
                        pout |-> r.pout, actions |-> r.actions,
                        starttime |-> now, config |-> config]))
  /\ UNCHANGED <<disk, world, now, pre, hist>>

\* watch.execute(ctx) on the root watch loaded from c, with the action_data
\* of a triggered run
ReportCall(c) ==
  /\ last.op = "idle"
  /\ Bind(Load("watch", c), LAMBDA ld :
       /\ ld.ok
       /\ Bind(Watch_execute(ld.obj, Starts, <<>>, now), LAMBDA r :
            /\ Ends(r)
            /\ last' = [op |-> "report", w |-> ld.obj, out |-> r.out, pout |-> r.pout,
                        starttime |-> now,
                        action_data |-> IF r.pout.kind = "ret" /\ r.pout.trigger
                                        THEN action_data(r.pout) ELSE NoOut]))
  /\ UNCHANGED <<disk, world, now, pre, hist>>
\* the shell starts or stops finishing a command in time
WorldChange(c) ==
  /\ last.op = "idle"
  /\ world' = [world EXCEPT ![c] = IF @ = "ok" THEN "timeout" ELSE "ok"]
  /\ UNCHANGED <<disk, cache, ctx, now, log, last, pre, hist>>

\* time.time() moves on
Tick ==
  /\ last.op = "idle"
  /\ now < MaxTime
  /\ now' = now + 1
  /\ UNCHANGED <<disk, cache, ctx, world, log, last, pre, hist>>

\* the call is over: the next one finds the cache it left
Return ==
  /\ last.op # "idle"
  /\ last' = Idle
  /\ log' = <<>>
  /\ ctx' = NewContext
  /\ pre' = cache
  /\ hist' =
       CASE last.op = "match" ->
              [hist EXCEPT !.evaluated =
                 IF last.m.cls = "cache" /\ (Len(last.items) > 0 \/ Attr(last.m, "empty").b)
                 THEN @ \cup {last.key} ELSE @]
         [] last.op = "process" ->
              [hist EXCEPT !.processed =
                 IF last.w.hash \in MatchHashes THEN @ \cup {last.w.hash} ELSE @]
         [] last.op = "execute" ->
              [hist EXCEPT !.streak[last.w.hash] =
                 IF last.pout.kind = "raise" THEN @ + 1 ELSE 0]
         [] OTHER -> hist
  /\ UNCHANGED <<disk, cache, world, now>>

\* the number of values pushed in the frames of a context
RECURSIVE Pushed(_)
Pushed(frames) ==
  IF Len(frames) = 0 THEN 0
  ELSE Len(Concat2([i \in 1..Len(Head(frames).vars) |-> Head(frames).vars[i][2]]))
       + Pushed(Tail(frames))

\* ctx.push_frame(id)
PushFrame(id) ==
  /\ Len(ctx.frames) <= MaxFrames
  /\ ctx' = push_frame(ctx, id)
  /\ last' = [op |-> "ctx", out |-> Done]
  /\ UNCHANGED <<disk, cache, world, now, log, pre, hist>>

\* ctx.pop_frame(id), on a context that has more than its root frame
PopFrame(id) ==
  /\ Len(ctx.frames) > 1
  /\ Bind(pop_frame(ctx, id), LAMBDA r :
       /\ ctx' = r.ctx
       /\ last' = [op |-> "ctx", out |-> IF r.ok THEN Done ELSE Exc(r.exc)])
  /\ UNCHANGED <<disk, cache, world, now, log, pre, hist>>

\* ctx.push_variable(key, value)
PushVariable(key, value) ==
  /\ Pushed(ctx.frames) < MaxVars
  /\ ctx' = push_variable(ctx, key, value)
  /\ last' = [op |-> "ctx", out |-> Done]
  /\ UNCHANGED <<disk, cache, world, now, log, pre, hist>>

\* ctx.pop_variable(key): a key the top frame does not hold raises KeyError
PopVariable(key) ==
  /\ IF DictHas(ctx.frames[Len(ctx.frames)].vars, key)
     THEN ctx' = pop_variable(ctx, key) /\ last' = [op |-> "ctx", out |-> Done]
     ELSE ctx' = ctx /\ last' = [op |-> "ctx", out |-> Exc("KeyError")]
  /\ UNCHANGED <<disk, cache, world, now, log, pre, hist>>

\* ctx.set_variable(key, value)
SetVariable(key, value) ==
  /\ ctx' = set_variable(ctx, key, value)
  /\ last' = [op |-> "ctx", out |-> Done]
  /\ UNCHANGED <<disk, cache, world, now, log, pre, hist>>

\* ctx.get_variable(key)
GetVariable(key) ==
  /\ last' = [op |-> "get", key |-> key, r |-> get_variable(ctx, key)]
  /\ UNCHANGED <<disk, cache, ctx, world, now, log, pre, hist>>

\* Selector.load(**sc).execute(ctx, items)
SelectorCall(sc, items) ==
  /\ Pushed(ctx.frames) < MaxVars
  /\ Bind(Load("selector", sc), LAMBDA ld :
       /\ ld.ok
       /\ Bind(Selector_execute(ld.obj, ctx, items), LAMBDA r :
            /\ ctx' = r.ctx
            /\ last' = [op |-> "select", sel |-> ld.obj, items |-> items,
                        ok |-> r.ok, ret |-> IF r.ok THEN r.items ELSE <<>>,
                        results |-> IF r.ok THEN r.results ELSE <<>>]))
  /\ UNCHANGED <<disk, cache, world, now, log, pre, hist>>

\* Cache(cache_path, encryption_key), once the cache before is closed
CacheOpen(cache_path, encryption_key) ==
  /\ disk.closed
  /\ Bind(Cache_init(disk.archives, cache_path, encryption_key), LAMBDA r :
       /\ disk' = r.d
       /\ cache' = r.cache)
  /\ last' = [op |-> "open", after |-> IF last.op = "close" THEN last ELSE Idle]
  /\ UNCHANGED <<ctx, world, now, log, pre, hist>>

\* what get_file answers for the keys that have a file
FilesOf(d) == [k \in DOMAIN d.cache_dir.files |-> get_file(d, k)]

\* cache.close()
CacheClose ==
  /\ Bind(Cache_close(disk, cache), LAMBDA r :
       /\ disk' = r.d
       /\ last' = [op |-> "close", ok |-> r.ok, before |-> disk, entries |-> cache,
                   files |-> FilesOf(disk)])
  /\ UNCHANGED <<cache, ctx, world, now, log, pre, hist>>

\* cache.put_entry(key, data), cache.get_entry(key), cache.has_entry(key)
PutEntry(key, data) ==
  /\ cache' = put_entry(cache, key, data)
  /\ last' = [op |-> "put_entry", ok |-> TRUE, closed |-> disk.closed, r |-> VNone]
  /\ UNCHANGED <<disk, ctx, world, now, log, pre, hist>>
GetEntry(key) ==
  /\ last' = [op |-> "get_entry", ok |-> TRUE, closed |-> disk.closed,
              r |-> get_entry(cache, key)]
  /\ UNCHANGED <<cache, disk, ctx, world, now, log, pre, hist>>
HasEntry(key) ==
  /\ last' = [op |-> "has_entry", ok |-> TRUE, closed |-> disk.closed,
              r |-> VB(has_entry(cache, key))]
  /\ UNCHANGED <<cache, disk, ctx, world, now, log, pre, hist>>

\* cache.put_file(key, data), cache.get_file(key), cache.has_file(key)
PutFile(key, data) ==
  /\ Bind(put_file(disk, key, data), LAMBDA r :
       /\ disk' = r.d
       /\ last' = [op |-> "put_file", ok |-> r.ok, closed |-> disk.closed, r |-> VNone])
  /\ UNCHANGED <<cache, ctx, world, now, log, pre, hist>>
GetFile(key) ==
  /\ Bind(get_file(disk, key), LAMBDA r :
       last' = [op |-> "get_file", ok |-> r.ok, closed |-> disk.closed,
                r |-> IF r.ok THEN r.v ELSE VNone])
  /\ UNCHANGED <<cache, disk, ctx, world, now, log, pre, hist>>
HasFile(key) ==
  /\ last' = [op |-> "has_file", ok |-> TRUE, closed |-> disk.closed,
              r |-> VB(has_file(disk, key))]
  /\ UNCHANGED <<cache, disk, ctx, world, now, log, pre, hist>>

\* Selector.load(**sc).run_all(ctx, items) of a cache selector, the cache
\* of the context being the open one; `again` when the call before was
\* the same selector on the same items
RunAll(sc, items) ==
  /\ Bind(Load("selector", sc), LAMBDA ld :
       /\ ld.ok
       /\ Bind(CacheSelector_run_all(ld.obj, ctx, disk, items), LAMBDA r :
            /\ disk' = r.d
            /\ last' = [op |-> "run_all", sel |-> ld.obj, items |-> items, ok |-> r.ok,
                        ret |-> IF r.ok THEN r.items ELSE <<>>,
                        before |-> get_file(disk, SelectorCacheKey(ld.obj, ctx)),
                        after |-> get_file(r.d, SelectorCacheKey(ld.obj, ctx)),
                        again |-> /\ last.op = "run_all"
                                  /\ last.ok
                                  /\ last.sel = ld.obj
                                  /\ last.items = items]))
  /\ UNCHANGED <<cache, ctx, world, now, log, pre, hist>>

\* Watch.load(**c): the watch, or the exception of the loader
LoadCall(c) ==
  /\ last.op = "idle"
  /\ Bind(Load("watch", c), LAMBDA ld :
       last' = [op |-> "load", c |-> c, ok |-> ld.ok,
                out |-> IF ld.ok THEN Done ELSE Exc(ld.exc)])
  /\ UNCHANGED <<disk, cache, ctx, world, now, log, pre, hist>>

Next ==
  \/ \E c \in TreeConfigs : ProcessCall(c)
  \/ WorldChange(CmdHello)
  \/ Return
Spec == Init /\ [][Next]_vars

NextMatch ==
  \/ \E mc \in MatchConfigs, h \in CallerHashes, items \in ItemLists : MatchCall(mc, h, items)
  \/ \E c \in MatchWatches : ProcessCall(c)
  \/ \E c \in Cmds : WorldChange(c)
  \/ Return
SpecMatch == Init /\ [][NextMatch]_vars

NextExec ==
  \/ \E c \in ExecRoots, config \in Configs : ExecuteCall(c, config)
  \/ WorldChange(CmdHello)
  \/ Tick
  \/ Return
SpecExec == Init /\ [][NextExec]_vars

NextCtx ==
  \/ PushFrame("f")
  \/ \E id \in FrameIds : PopFrame(id)
  \/ \E value \in CtxValues : PushVariable("x", value)
  \/ PopVariable("x")
  \/ \E value \in CtxValues : SetVariable("x", value)
  \/ \E key \in CtxKeys : GetVariable(key)
  \/ \E sc \in SelectorConfigs : SelectorCall(sc, ItemsAB)
SpecCtx == Init /\ [][NextCtx]_vars

NextNested ==
  \/ \E c \in NestedConfigs : ProcessCall(c)
  \/ \E c \in LoadConfigs : LoadCall(c)
  \/ Return
SpecNested == Init /\ [][NextNested]_vars

\* Watch.load(**ca) and Watch.load(**cb)
LoadPair(ca, cb) ==
  /\ last.op = "idle"
  /\ last' = [op |-> "loads", ca |-> ca, cb |-> cb,
              a |-> Load("watch", ca), b |-> Load("watch", cb)]
  /\ UNCHANGED <<cache, disk, ctx, world, now, log, pre, hist>>

NextLoad ==
  \/ \E ca \in LoadKwargs, cb \in LoadKwargs : LoadPair(ca, cb)
  \/ Return
SpecLoad == Init /\ [][NextLoad]_vars

NextCache ==
  \/ \E cache_path \in Paths \cup {""}, encryption_key \in EncryptionKeys :
       CacheOpen(cache_path, encryption_key)
  \/ CacheClose
  \/ \E key \in EntryKeys, data \in EntryValues : PutEntry(key, data)
  \/ \E key \in EntryKeys : GetEntry(key)
  \/ \E key \in EntryKeys : HasEntry(key)
  \/ \E key \in FileKeys, data \in FileValues : PutFile(key, data)
  \/ \E key \in FileKeys : GetFile(key)
  \/ \E key \in FileKeys : HasFile(key)
SpecCache == Init /\ [][NextCache]_vars

NextSelect ==
  \/ \E sc \in CacheSelectorConfigs, items \in SelectorItems : RunAll(sc, items)
  \/ CacheClose
  \/ CacheOpen("", "")
SpecSelect == Init /\ [][NextSelect]_vars

NextCompose ==
  \/ \E c \in Conds : ProcessCall(c)
  \/ \E c \in TemplateConfigs, held \in HeldSets : TemplateCall(c, held)
  \/ Return
SpecCompose == Init /\ [][NextCompose]_vars

NextStore ==
  \/ \E c \in StoreConfigs : ProcessCall(c)
  \/ Return
SpecStore == Init /\ [][NextStore]_vars
NextChildless ==
  \/ \E c \in Childless \cup Conds : ProcessCall(c)
  \/ Return
SpecChildless == Init /\ [][NextChildless]_vars
\* the `-failures` entry of the root loaded from c is below MaxFailed
FailuresBelow(c) ==
  Bind(get_entry(cache, HashOf(c) \o "-failures"), LAMBDA f :
    IF f.t = "int" THEN f.i < MaxFailed ELSE TRUE)
NextOrder ==
  \/ \E c \in OrderRoots : FailuresBelow(c) /\ ReportCall(c)
  \/ WorldChange(CmdHello)
  \/ Tick
  \/ Return
SpecOrder == Init /\ [][NextOrder]_vars
NextScope ==
  \/ \E c \in NestedConfigs \cup ScopeConfigs : ProcessCall(c)
  \/ Return
SpecScope == Init /\ [][NextScope]_vars
NextSub ==
  \/ \E sc \in SubConfigs, items \in SubInputs : SelectorCall(sc, items)
  \/ PopVariable("x")
SpecSub == Init /\ [][NextSub]_vars
NextHash ==
  \/ \E ca \in HashKwargs, cb \in HashKwargs : LoadPair(ca, cb)
  \/ Return
SpecHash == Init /\ [][NextHash]_vars
NextReport ==
  \/ \E c \in ReportRoots : ReportCall(c)
  \/ Return
SpecReport == Init /\ [][NextReport]_vars

(***************************************************************************)
(* Reading the trace of a call                                             *)
(***************************************************************************)
\* the first event e of watch p after position i, 0 if there is none
FirstAfter(i, e, p) ==
  LET S == {j \in (i + 1)..Len(log) : log[j].e = e /\ log[j].p = p}
  IN IF S = {} THEN 0 ELSE CHOOSE j \in S : \A k \in S : j <= k

\* the last "enter" of watch p before position i
EnterBefore(i, p) ==
  LET S == {j \in 1..(i - 1) : log[j].e = "enter" /\ log[j].p = p}
  IN IF S = {} THEN 0 ELSE CHOOSE j \in S : \A k \in S : j >= k

\* position i lies in the `before` loop of the watch that logged it
InBefore(i) ==
  \A j \in EnterBefore(i, log[i].p)..i : ~(log[j].e = "after" /\ log[j].p = log[i].p)

\* what process returns for an outcome of its try block
Normal(out) == IF out.kind = "ret" /\ ~out.trigger THEN NoTrigger ELSE out

Triggered(out) == out.kind = "ret" /\ out.trigger
OwnRun == {"run", "fetch", "load"}

(***************************************************************************)
(* Properties of Spec: watch.process on trees of watches                   *)
(***************************************************************************)
\* C1: under the operator `all` (or `and`), as soon as a child's process
\* returns trigger = false the run of the MultipleWatch is over: it has
\* returned (false, [], []) and no later child is loaded or processed
C1_AllShortCircuits ==
  \A i \in 1..Len(log) :
    (log[i].e = "result" /\ log[i].x \in OPERATOR_ALL /\ log[i].out.kind = "ret"
       /\ ~log[i].out.trigger)
    => /\ i < Len(log)
       /\ log[i + 1].e = "after" /\ log[i + 1].p = log[i].p
       /\ log[i + 1].out = NoTrigger
       /\ LET x == FirstAfter(i, "exit", log[i].p)
          IN /\ x > 0
             /\ \A j \in (i + 1)..x : log[j].p = log[i].p => log[j].e \notin OwnRun

\* an `all` group of two children whose first child did not trigger: the
\* second was never loaded
C1_Witness ==
  /\ last.op = "process" /\ last.w.cls = "group"
  /\ Attr(last.w, "operator").s \in OPERATOR_ALL
  /\ Len(Attr(last.w, "group").l) = 2
  /\ Cardinality({i \in 1..Len(log) : log[i].e = "load" /\ log[i].p = last.w.hash}) = 1
  /\ \E i \in 1..Len(log) :
       log[i].e = "result" /\ log[i].p = last.w.hash /\ ~Triggered(log[i].out)
  /\ last.out = NoTrigger

\* C4, on one call of a OnceWatch: with its once-key in the cache it returns
\* (false, [], []) and neither loads nor runs the inner watch; without it,
\* it runs the inner watch and records the key exactly if that triggered
C4_Call ==
  (last.op = "process" /\ last.w.cls = "once")
  => IF has_entry(pre, OnceKey(last.w, NewContext))
     THEN /\ last.out = NoTrigger
          /\ cache = pre
          /\ \A i \in 1..Len(log) : log[i].e \notin {"enter", "run", "fetch", "load"}
     ELSE /\ \E i \in 1..Len(log) : log[i].e = "load" /\ log[i].p = last.w.hash
          /\ has_entry(cache, OnceKey(last.w, NewContext)) <=> Triggered(last.out)

\* C4: over any sequence of process calls sharing one cache, a OnceWatch
\* whose inner watch has triggered has its once-key recorded, the key stays
\* recorded, and every later call returns (false, [], []) without loading
\* or running the inner watch; a call in which the inner watch did not
\* trigger leaves the key absent and the next call runs the inner watch
C4_OnceOnly ==
  [](C4_Call) /\ [][\A k \in DOMAIN cache : k \in DOMAIN cache']_vars

\* a call of a OnceWatch that found its key: nothing ran
C4_Witness ==
  /\ last.op = "process" /\ last.w.cls = "once"
  /\ has_entry(pre, OnceKey(last.w, NewContext))
  /\ Len(log) = 1 /\ log[1].e = "skip"
  /\ last.out = NoTrigger

\* C9: when a `before` hook raises, the try block of Watch.process is left
\* at once with that exception: the watch's own run (its fetch, the
\* loading and processing of its children) is not started, and the
\* exception is what process gives its caller
C9_BeforeAborts ==
  \A i \in 1..Len(log) :
    (log[i].e = "hookresult" /\ log[i].out.kind = "raise" /\ InBefore(i))
    => /\ i < Len(log)
       /\ log[i + 1].e = "after" /\ log[i + 1].p = log[i].p
       /\ log[i + 1].out = log[i].out
       /\ LET x == FirstAfter(i, "exit", log[i].p)
          IN /\ x > 0
             /\ log[x].out = log[i].out
             /\ \A j \in EnterBefore(i, log[i].p)..x :
                  log[j].p = log[i].p => log[j].e \notin OwnRun
       /\ (last.op = "process" /\ log[i].p = last.w.hash) => last.out = log[i].out

\* a watch whose own run would have returned, stopped by its before hook
C9_Witness ==
  /\ last.op = "process" /\ last.w.cls = "count"
  /\ Len(Attr(last.w, "before").l) > 0
  /\ last.out = Exc("WatchException")
  /\ \E i \in 1..Len(log) :
       /\ log[i].e = "hookresult" /\ log[i].p = last.w.hash
       /\ log[i].out.kind = "raise" /\ InBefore(i)

C2_CacheMatch ==
  /\ hist.evaluated \subseteq DOMAIN cache
  /\ (last.op = "match" /\ last.m.cls = "cache" /\ Len(last.items) > 0)
     => /\ last.r = ~has_entry(pre, last.key)
        /\ has_entry(cache, last.key)
        /\ last.key \in hist.evaluated => ~last.r

\* a later evaluation with a key evaluated before
C2_Witness ==
  /\ last.op = "match" /\ last.m.cls = "cache" /\ Len(last.items) > 0
  /\ last.key \in hist.evaluated
  /\ ~last.r

\* a CacheMatch without `empty` has been evaluated on no items
SkippedEmpty ==
  /\ last.op = "match" /\ last.m.cls = "cache"
  /\ ~Attr(last.m, "empty").b /\ Len(last.items) = 0

\* C33: a CacheMatch with `empty` false evaluated on an empty item list
\* returns false and leaves the cache as it was, so that the next
\* evaluation with the same key on a non-empty list answers what it would
\* have answered before: true if the key was not in the cache
C33_EmptyLeavesCache ==
  SkippedEmpty =>
    /\ ~last.r
    /\ cache = pre
    /\ last.later = ~has_entry(pre, last.key)
C33_Witness ==
  /\ SkippedEmpty
  /\ pre # EmptyCache
  /\ ~has_entry(cache, last.key)
  /\ last.later
\* the watch uses a CacheMatch without an explicit key
UnkeyedCacheMatch(w) ==
  /\ Attr(w, "match").t = "dict"
  /\ LET m == Load("match", Attr(w, "match").d)
     IN m.ok /\ m.obj.cls = "cache" /\ Attr(m.obj, "key").t = "none"

\* C3: a DataWatch with `match: {type: cache}` and no explicit key triggers
\* on its own first run against a cache that only watches of a different
\* configuration have run against
C3_OwnKeys ==
  (/\ last.op = "process" /\ last.w.hash \in MatchHashes
   /\ UnkeyedCacheMatch(last.w)
   /\ hist.evaluated = {}
   /\ last.w.hash \notin hist.processed
   /\ last.out.kind = "ret")
  => last.out.trigger

(***************************************************************************)
(* Properties of SpecExec: Watch.execute                                   *)
(***************************************************************************)
FailuresKey == last.w.hash \o "-failures"
TriggeredKey == last.w.hash \o "-triggered"
Calls(e) == SelectSeq(log, LAMBDA ev : ev.e = e)
\* the consecutive failures of the watch, the run in `last` included
Consecutive == hist.streak[last.w.hash] + 1

\* C5: on a failing execute that returns, error() is called once on each
\* action if the consecutive failures have reached 3, 10, 25 or 50 with
\* this run, and not at all otherwise
C5_ErrorAtThresholds ==
  (last.op = "execute" /\ last.pout.kind = "raise" /\ last.out = Done)
  => Calls("error") =
       IF Consecutive \in FailureThresholds
       THEN [i \in 1..Len(last.actions) |->
               Event("error", last.actions[i].hash, last.w.hash,
                     ToString(Consecutive), NoOut)]
       ELSE <<>>

\* C6: after a failing execute the `-failures` entry is the number of
\* consecutive failures, an absent entry counting as 0
C6_FailuresCounted ==
  (last.op = "execute" /\ last.pout.kind = "raise")
  => get_entry(cache, FailuresKey) = VI(Consecutive)

\* C7: an execute whose process raised returns normally
C7_ExecuteReturns ==
  (last.op = "execute" /\ last.pout.kind = "raise") => last.out = Done

\* the actions a run reports to: the watch's own, then the defaults
Configured ==
  Attr(last.w, "actions").l
    \o (IF DictHas(last.config, "default_actions")
        THEN DictGet(last.config, "default_actions").l ELSE <<>>)

\* C8: a successful execute sets `-failures` to 0 and calls no error(); if
\* the watch triggered, `-triggered` is the starttime of the run and
\* report() has been called exactly once on each configured and each
\* default action; if not, no action has been called and `-triggered` is
\* as it was
C8_Success ==
  (last.op = "execute" /\ last.pout.kind = "ret")
  => /\ last.out = Done
     /\ get_entry(cache, FailuresKey) = VI(0)
     /\ Calls("error") = <<>>
     /\ Len(last.actions) = Len(Configured)
     /\ \A i \in 1..Len(Configured) :
          Load("action", Configured[i].d).obj = last.actions[i]
     /\ IF last.pout.trigger
        THEN /\ get_entry(cache, TriggeredKey) = VI(last.starttime)
             /\ Calls("report") =
                  [i \in 1..Len(last.actions) |->
                     Event("report", last.actions[i].hash, last.w.hash, "", NoOut)]
        ELSE /\ Calls("report") = <<>>
             /\ get_entry(cache, TriggeredKey) = get_entry(pre, TriggeredKey)

\* a triggering run with one action of its own and one default action,
\* after an earlier run that triggered at another time
C8_Witness ==
  /\ last.op = "execute" /\ Triggered(last.pout)
  /\ Len(last.actions) = 2 /\ Len(Calls("report")) = 2
  /\ get_entry(cache, TriggeredKey) = VI(last.starttime)

(***************************************************************************)
(* Properties of SpecCtx: Context and Selector.execute                     *)
(***************************************************************************)
\* the lookup from the innermost frame outwards: the last value pushed in
\* the newest frame that holds the key, else the process-scope value, else
\* None
Innermost(c, key) ==
  LET holders == {i \in 1..Len(c.frames) : DictHas(c.frames[i].vars, key)}
  IN IF holders # {}
     THEN LET i == CHOOSE j \in holders : \A k \in holders : j >= k
              stack == c.frames[i].vars[DictIdx(c.frames[i].vars, key)][2]
          IN stack[Len(stack)]
     ELSE DictGet(c.variables, key)

\* C12: get_variable(name) returns the value pushed last in the innermost
\* frame that holds the name, and the process-scope value (or the default
\* None) only when no frame holds it
C12_InnermostFirst ==
  last.op = "get" => last.r = Innermost(ctx, last.key)

\* C13: a selector with `store` set returns the items it was given,
\* unchanged and in order, and right after the call get_variable(store) is
\* the result of that selector
C13_StorePassesThrough ==
  (last.op = "select" /\ last.ok /\ Attr(last.sel, "store").t # "none")
  => /\ last.ret = last.items
     /\ get_variable(ctx, Attr(last.sel, "store").s) = VL(last.results)

(***************************************************************************)
(* Properties of SpecNested: commented groups, loops and their frames      *)
(***************************************************************************)
\* the ids of the frames of a context, root first
FrameIdsOf(c) == [i \in 1..Len(c.frames) |-> c.frames[i].id]

\* C11: when Watch.process returns or raises, for the root watch and for
\* every watch processed below it (hooks, children, loop and do watches,
\* whether a hook or run raised, a OnceWatch returned early or a loop was
\* cut short), the frame stack has the depth and the frame ids it had
\* before the call
C11_FramesBalanced ==
  last.op = "process" =>
    /\ FrameIdsOf(ctx) = FrameIdsOf(NewContext)
    /\ \A i \in 1..Len(log) :
         log[i].e = "enter" =>
           LET x == FirstAfter(i, "exit", log[i].p)
               inside == FrameIdsOf(last.snap[i])
           IN /\ x > 0
              /\ inside[Len(inside)] = log[i].h
              /\ FrameIdsOf(last.snap[x]) = SubSeq(inside, 1, Len(inside) - 1)

\* a loop cut short by `all` at its second item, with a before hook and an
\* after hook that raises
C11_Witness ==
  /\ last.op = "process"
  /\ last.w.cls = "loop"
  /\ Attr(last.w, "operator").s \in OPERATOR_ALL
  /\ last.out = NoTrigger
  /\ \E i, j \in 1..Len(log) :
       /\ log[i].e = "iter" /\ log[i].x = "1"
       /\ Len(last.snap[i].frames) = 2
       /\ log[j].e = "hookresult" /\ log[j].out.kind = "raise"

\* C14: the data record of a triggered watch with action_data carries that
\* watch's own hash as its `id`, at any nesting depth: every DataWatch of
\* the tree that returns a record returns one whose id is its hash
C14_IdIsOwnHash ==
  last.op = "process" =>
    \A i \in 1..Len(log) :
      (/\ log[i].e = "exit" /\ Triggered(log[i].out)
       /\ \E j \in 1..(i - 1) : log[j].e = "fetch" /\ log[j].h = log[i].h)
      => \A k \in 1..Len(log[i].out.data) :
           DictGet(log[i].out.data[k].d, "id") = VS(log[i].h)

\* what the children of the root watch returned to it, in the order they
\* were processed, and the hashes of the children it is configured with
RootResults == SelectSeq(log, LAMBDA ev : ev.e = "result" /\ ev.p = last.w.hash)
RootKids == [i \in 1..Len(Attr(last.w, "group").l) |-> HashOf(Attr(last.w, "group").l[i].d)]
RootOperator(ops) ==
  last.op = "process" /\ last.w.cls = "group" /\ Attr(last.w, "operator").s \in ops
NoneRaised == \A i \in 1..Len(RootResults) : RootResults[i].out.kind = "ret"
\* the comments and the data of the triggered ones among results
TriggeredComments(results) ==
  Concat2([i \in 1..Len(results) |->
             IF Triggered(results[i].out) THEN results[i].out.comment ELSE <<>>])
TriggeredData(results) ==
  Concat2([i \in 1..Len(results) |->
             IF Triggered(results[i].out) THEN results[i].out.data ELSE <<>>])
AnyTriggered(results) == \E i \in 1..Len(results) : Triggered(results[i].out)
\* the context in which the root watch ended its run
RootCtx == last.snap[FirstAfter(0, "after", last.w.hash)]

C16_LastDecides ==
  (RootOperator({OPERATOR_LAST}) /\ NoneRaised)
  => /\ [i \in 1..Len(RootResults) |-> RootResults[i].h] = RootKids
     /\ last.out.kind = "ret"
     /\ last.out.trigger = (/\ Len(RootResults) > 0
                            /\ Triggered(RootResults[Len(RootResults)].out))
     /\ ~last.out.trigger => last.out = NoTrigger

\* a `last` group whose first child triggered and whose second did not
C16_Witness ==
  /\ RootOperator({OPERATOR_LAST}) /\ NoneRaised
  /\ Len(RootResults) = 2
  /\ Triggered(RootResults[1].out) /\ ~Triggered(RootResults[2].out)
  /\ last.out = NoTrigger

\* C17: under `last`, when the group triggers, its comment and its data
\* are the complete comment list and the complete data list that the last
\* triggered child returned (for a group without a comment of its own)
C17_LastComplete ==
  (/\ RootOperator({OPERATOR_LAST}) /\ NoneRaised
   /\ Triggered(last.out) /\ Attr(last.w, "comment").t = "none")
  => LET T == {i \in 1..Len(RootResults) : Triggered(RootResults[i].out)}
         k == CHOOSE i \in T : \A j \in T : j <= i
     IN /\ last.out.comment = RootResults[k].out.comment
        /\ last.out.data = RootResults[k].out.data

\* C18: a group watch configured with the operator `break` loads
\* successfully (and then processes its children up to the first one that
\* does not trigger): Watch.load of such a configuration gives a watch
C18_BreakGroupLoads ==
  (/\ last.op = "load"
   /\ get_type("watch", last.c).ok /\ get_type("watch", last.c).cls = "group"
   /\ DictGet(last.c, "operator") = VS(OPERATOR_BREAK))
  => last.ok

\* the iterations of the root loop: what LoopWatch.gen yielded, in order
RootIters == SelectSeq(log, LAMBDA ev : ev.e = "iter" /\ ev.p = last.w.hash)
DistinctItems ==
  \A i, j \in 1..Len(RootIters) : i # j => RootIters[i].out.value # RootIters[j].out.value
\* the `do` watch of the root loop matches with a CacheMatch without a key
DoUnkeyed ==
  LET do == Load("watch", Attr(last.w, "do").d)
  IN do.ok /\ do.obj.cls \in DataClasses /\ UnkeyedCacheMatch(do.obj)

\* C19: in a loop whose `do` uses a cache match without an explicit key the
\* iterations over distinct data use distinct cache entries: on the first
\* run, against an empty cache, over distinct items every iteration triggers
C19_IterationsOwnEntries ==
  (/\ last.op = "process" /\ last.w.cls = "loop" /\ DoUnkeyed
   /\ pre = EmptyCache /\ DistinctItems /\ NoneRaised
   /\ Attr(last.w, "operator").s \in {"any", "or"})
  => /\ Len(RootResults) = Len(RootIters)
     /\ \A i \in 1..Len(RootResults) : Triggered(RootResults[i].out)

\* the generator of the root loop: its hash, what its process returned and
\* the items it left in the context
RootGenHash == HashOf(Attr(last.w, "loop").d)
RootGenOut == log[FirstAfter(0, "exit", RootGenHash)].out
RootGenItems == DictGet(ctx.variables, RootGenHash).l

\* C20: a triggered loop builds and processes its `do` watch once per item
\* of the generator, in item order; while the i-th `do` watch runs, `index`
\* resolves to i and `<as>` to the value of the i-th item, for every loop of
\* the tree; and `do` watches built for distinct values have distinct hashes
C20_LoopBinds ==
  last.op = "process" =>
    /\ \A i \in 1..Len(log) :
         log[i].e = "iter" =>
           LET r == FirstAfter(i, "run", log[i].h)
           IN r > 0 =>
                /\ PyStr(get_variable(last.snap[r], "index")) = log[i].x
                /\ get_variable(last.snap[r], log[i].out.as) = log[i].out.value
    /\ \A i, j \in 1..Len(log) :
         (/\ log[i].e = "iter" /\ log[j].e = "iter" /\ log[i].p = log[j].p
          /\ log[i].out.value # log[j].out.value)
         => log[i].h # log[j].h
    /\ (/\ last.w.cls = "loop" /\ NoneRaised /\ last.out.kind = "ret"
        /\ Attr(last.w, "operator").s \in {"any", "or", OPERATOR_LAST}
        /\ Triggered(RootGenOut))
       => /\ [i \in 1..Len(RootIters) |-> RootIters[i].out.value]
               = [i \in 1..Len(RootGenItems) |-> RootGenItems[i].value]
          /\ [i \in 1..Len(RootIters) |-> RootIters[i].x]
               = [i \in 1..Len(RootGenItems) |-> ToString(i - 1)]
          /\ [i \in 1..Len(RootResults) |-> RootResults[i].h]
               = [i \in 1..Len(RootIters) |-> RootIters[i].h]

(***************************************************************************)
(* Properties of SpecCompose: conditional and template watches             *)
(***************************************************************************)
\* the watches the root watch loaded from its gen, in order, and the
\* outcome of the condition of a root ConditionalWatch (0: not reached)
RootLoads == SelectSeq(log, LAMBDA ev : ev.e = "load" /\ ev.p = last.w.hash)
RootCond == FirstAfter(0, "cond", last.w.hash)
Hashes(events) == [i \in 1..Len(events) |-> events[i].h]

\* C21: a ConditionalWatch processes at most one of `then` / `else` per
\* call: `then` iff its condition group triggers, `else` iff it does not
\* and `else` is configured; with a false condition and no `else` it
\* returns (false, [], []) and `then` is neither loaded nor processed
C21_OneBranch ==
  (last.op = "process" /\ last.w.cls = "conditional")
  => LET then == HashOf(Attr(last.w, "then").d)
         else == Attr(last.w, "else")
     IN /\ Len(RootLoads) <= 1
        /\ Hashes(RootResults) = Hashes(RootLoads)
        /\ IF RootCond = 0 THEN RootLoads = <<>>
           ELSE IF Triggered(log[RootCond].out) THEN Hashes(RootLoads) = <<then>>
           ELSE IF else.t # "none" THEN Hashes(RootLoads) = <<HashOf(else.d)>>
           ELSE RootLoads = <<>> /\ last.out = NoTrigger

\* a condition that did not trigger, with `else` processed and `then` not
C21_Witness ==
  /\ last.op = "process" /\ last.w.cls = "conditional"
  /\ RootCond > 0 /\ ~Triggered(log[RootCond].out)
  /\ Attr(last.w, "else").t = "dict"
  /\ Hashes(RootLoads) = <<HashOf(Attr(last.w, "else").d)>>
  /\ HashOf(Attr(last.w, "else").d) # HashOf(Attr(last.w, "then").d)
  /\ Triggered(last.out)

\* the sub-watch a template configuration instantiates in the context of
\* the call in `last`: TemplateWatch.gen
Instantiated(c) ==
  Bind(Load("watch", c).obj, LAMBDA w :
  Bind(TemplateGen(w, last.ctx0), LAMBDA t :
    IF ~t.ok THEN t
    ELSE Bind(Load("watch", t.v.d), LAMBDA ld :
           IF ~ld.ok THEN ld
           ELSE [ok |-> TRUE, hash |-> update_hash(ld.obj, Attr(w, "variables")).hash])))
RootTemplate == last.op = "process" /\ last.w.cls = "template"
\* the invocations of the template of `last` with other variables
OtherInvocations ==
  {c \in TemplateConfigs :
     /\ Load("watch", c).obj.cls = "template"
     /\ Attr(Load("watch", c).obj, "template") = Attr(last.w, "template")
     /\ Attr(Load("watch", c).obj, "variables") # Attr(last.w, "variables")
     /\ Instantiated(c).ok}

\* C22 as stated: an invocation of a template and any invocation of the
\* same template with different variables have different TemplateWatch
\* hashes, and the sub-watches they instantiate have different hashes
C22_VariablesSeparate ==
  (RootTemplate /\ Len(RootLoads) = 1) =>
    \A c \in OtherInvocations :
      /\ HashOf(c) # last.w.hash
      /\ Instantiated(c).hash # RootLoads[1].h

\* the events of the trace at which a template watch pushed its variables
Pushes == {i \in 1..Len(log) : log[i].e = "push"}
\* the events from the load of the watch instantiated after push i to its
\* result: the time it runs
RunsAfter(i) ==
  LET j == FirstAfter(i, "load", log[i].h)
      k == FirstAfter(i, "result", log[i].h)
  IN IF j = 0 \/ k = 0 THEN {} ELSE j..k

\* C23 as stated: while the instantiated watch runs every entry of the
\* (expanded) variables is what the context answers for its key, and after
\* the call, returned or raised, the frame of the caller holds what it held
C23_VariablesScoped ==
  RootTemplate =>
    /\ \A i \in Pushes : \A m \in RunsAfter(i) : \A n \in 1..Len(log[i].out.vars) :
         get_variable(last.snap[m], log[i].out.vars[n][1]) = log[i].out.vars[n][2]
    /\ ctx.frames = last.ctx0.frames

(***************************************************************************)
(* Properties of SpecSelect: the cache selectors                           *)
(***************************************************************************)
RanAll(cls) == last.op = "run_all" /\ last.sel.cls = cls /\ last.ok
\* the derived keys of the items of the call
Keys == [i \in 1..Len(last.items) |-> ItemKey(last.sel, last.items[i])]
\* the cached set before and after the call
CachedSet(file) == IF file.v.t = "list" THEN SetOf(file.v.l) ELSE {}
\* the items of the input at the first occurrence of a key the set before
\* the call did not hold
FirstOfNew ==
  LET idx == SelectSeq([i \in 1..Len(last.items) |-> i],
                       LAMBDA i : /\ Keys[i] \notin CachedSet(last.before)
                                  /\ \A j \in 1..(i - 1) : Keys[j] # Keys[i])
  IN [k \in 1..Len(idx) |-> last.items[idx[k]]]

\* C24: a run of `new` emits, in input order, the items whose key the
\* cached set did not hold before the run (each key once); afterwards the
\* set is the set before united with the keys of all the input; the same
\* inputs run again emit nothing
C24_NewEmitsUnseen ==
  RanAll("new") =>
    /\ last.ret = FirstOfNew
    /\ CachedSet(last.after) = CachedSet(last.before) \cup SetOf(Keys)
    /\ last.again => last.ret = <<>>
C24_Witness ==
  /\ RanAll("new")
  /\ ~last.again
  /\ CachedSet(last.before) # {}
  /\ last.ret # <<>>
  /\ Len(last.ret) < Len(last.items)

\* the first item of the input whose key is the stored marker, 0 for none
FirstMatch ==
  LET found == {i \in 1..Len(last.items) : last.before.v.t # "none" /\ Keys[i] = last.before.v}
  IN IF found = {} THEN 0 ELSE CHOOSE i \in found : \A j \in found : i <= j

\* C25 as stated: a run of `since` emits the prefix of the input before the
\* first item whose key is the stored marker, the whole input without a
\* marker or a match; a run without a marker stores the key of the first
\* item; the same inputs run again emit nothing and leave that key stored
C25_SinceEmitsPrefix ==
  RanAll("since") =>
    /\ last.ret = IF FirstMatch = 0 THEN last.items
                  ELSE SubSeq(last.items, 1, FirstMatch - 1)
    /\ (last.before.v.t = "none" /\ Len(last.items) > 0) => last.after.v = Keys[1]
    /\ (last.again /\ Len(last.items) > 0) =>
         last.ret = <<>> /\ last.after.v = Keys[1]

\* the positions of the input whose key no earlier position has
FirstOccurrences == {i \in 1..Len(last.items) : \A j \in 1..(i - 1) : Keys[j] # Keys[i]}

\* C37: the items a run of `new` emits have different derived keys, each
\* the first item of the input with its key, and the cached key set after
\* the run holds every key it held before
C37_NoDuplicateKeys ==
  RanAll("new") =>
    /\ \A i, j \in 1..Len(last.ret) :
         ItemKey(last.sel, last.ret[i]) = ItemKey(last.sel, last.ret[j]) => i = j
    /\ \A i \in 1..Len(last.ret) :
         \E k \in FirstOccurrences : last.items[k] = last.ret[i]
    /\ CachedSet(last.before) \subseteq CachedSet(last.after)
\* an input that holds an unseen key twice, run against a set that is not
\* empty
C37_Witness ==
  /\ RanAll("new")
  /\ CachedSet(last.before) # {}
  /\ \E i \in FirstOccurrences : \E j \in (i + 1)..Len(last.items) :
       Keys[j] = Keys[i] /\ Keys[i] \notin CachedSet(last.before)
  /\ Cardinality(CachedSet(last.after)) > Cardinality(CachedSet(last.before))

\* C36: after a run of `since` on a non-empty input the stored marker is
\* the derived key of the first item of the input; a run on an empty input,
\* and a run that emits nothing, leave the stored marker as it was
C36_MarkerIsFirstKey ==
  RanAll("since") =>
    /\ Len(last.items) > 0 => last.after.ok /\ last.after.v = Keys[1]
    /\ (Len(last.items) = 0 \/ last.ret = <<>>) => last.after = last.before
\* a run that found the marker further down the input and moved it
C36_Witness ==
  /\ RanAll("since")
  /\ last.ret # <<>> /\ Len(last.ret) < Len(last.items)
  /\ last.before.v # Keys[1]
  /\ last.after.v = Keys[1]

(***************************************************************************)
(* Properties of SpecCache: the Cache object                               *)
(***************************************************************************)
\* the cache was opened right after a first close of a cache on the same
\* path with the same encryption key
Reopened ==
  /\ last.op = "open"
  /\ last.after.op = "close"
  /\ ~last.after.before.closed
  /\ disk.cache_path # ""
  /\ last.after.before.cache_path = disk.cache_path
  /\ last.after.before.encryptor = disk.encryptor

\* C26 as stated: what the cache held for its entries and files when it
\* was closed, the new cache on the same path and key returns
C26_RoundTrip ==
  Reopened =>
    /\ \A k \in DOMAIN last.after.entries : get_entry(cache, k) = last.after.entries[k]
    /\ \A k \in DOMAIN last.after.files : get_file(disk, k) = last.after.files[k]

CacheOps == {"put_entry", "get_entry", "has_entry", "put_file", "get_file", "has_file"}
\* C27 as stated: a close of a closed cache raises nothing and changes
\* nothing, and every put, get and has on a closed cache fails
C27_CloseIdempotent ==
  /\ (last.op = "close" /\ last.before.closed) => (last.ok /\ disk = last.before)
  /\ (last.op \in CacheOps /\ last.closed) => ~last.ok

(***************************************************************************)
(* Properties of SpecLoad: Loadable.load                                   *)
(***************************************************************************)
BothLoaded == last.op = "loads" /\ last.a.ok /\ last.b.ok
\* a value without the keys of `skip`, at every depth
RECURSIVE Strip(_, _)
Strip(v, skip) ==
  CASE v.t = "list" -> VL([i \in 1..Len(v.l) |-> Strip(v.l[i], skip)])
    [] v.t = "dict" ->
         LET kept == SelectSeq(v.d, LAMBDA p : p[1] \notin skip)
         IN VD([i \in 1..Len(kept) |-> <<kept[i][1], Strip(kept[i][2], skip)>>])
    [] OTHER -> v
\* two values equal as Python compares them: mappings by their keys and
\* values whatever the order, lists item by item
RECURSIVE MapEq(_, _)
MapEq(a, b) ==
  CASE a.t = "dict" /\ b.t = "dict" ->
         /\ {a.d[i][1] : i \in 1..Len(a.d)} = {b.d[i][1] : i \in 1..Len(b.d)}
         /\ \A i \in 1..Len(a.d) : MapEq(a.d[i][2], DictGet(b.d, a.d[i][1]))
    [] a.t = "list" /\ b.t = "list" ->
         /\ Len(a.l) = Len(b.l)
         /\ \A i \in 1..Len(a.l) : MapEq(a.l[i], b.l[i])
    [] OTHER -> a = b

\* C28: two loads of one class whose kwargs differ only in the keys of
\* hash_skip, at the top or inside the dicts and lists of a value, have
\* equal hashes
C28_SkippedKeysIgnored ==
  (/\ BothLoaded
   /\ last.a.obj.cls = last.b.obj.cls
   /\ Strip(VD(last.ca), HashSkip("watch")) = Strip(VD(last.cb), HashSkip("watch")))
    => last.a.obj.hash = last.b.obj.hash
C28_Witness ==
  /\ BothLoaded
  /\ last.a.obj.cls = last.b.obj.cls
  /\ Strip(VD(last.ca), HashSkip("watch")) = Strip(VD(last.cb), HashSkip("watch"))
  /\ DictGet(last.ca, "action_data") # DictGet(last.cb, "action_data")
  /\ last.a.obj.hash = last.b.obj.hash

\* C29 as stated: two loads whose kwargs are equal as mappings at every
\* depth, whatever the order of their keys, have equal hashes
C29_OrderIndependent ==
  (BothLoaded /\ MapEq(VD(last.ca), VD(last.cb))) => last.a.obj.hash = last.b.obj.hash

\* the names of the kwargs that type_determination_skip does not hold
Named(kwargs) ==
  SelectSeq(DictKeys(kwargs), LAMBDA x : x \notin TypeDeterminationSkip("watch"))
LaterTag(kwargs) ==
  \E i \in 2..Len(Named(kwargs)) : Lower(Named(kwargs)[i]) \in Classes("watch")

\* C30: without `type` the first kwarg name outside type_determination_skip
\* is the tag: the load has its class and binds the skipped keys before it
\* as fields; when that name is no registered tag (or there is none) the
\* load raises LoadableException, whatever the later names
C30_FirstNameIsTag ==
  (last.op = "loads" /\ ~DictHas(last.ca, "type")) =>
    IF Len(Named(last.ca)) > 0 /\ Lower(Named(last.ca)[1]) \in Classes("watch")
    THEN last.a.ok =>
           /\ last.a.obj.cls = Lower(Named(last.ca)[1])
           /\ DictHas(last.ca, "before") => Attr(last.a.obj, "before") = DictGet(last.ca, "before")
    ELSE ~last.a.ok /\ last.a.exc = "LoadableException"
C30_Witness ==
  /\ last.op = "loads"
  /\ ~DictHas(last.ca, "type")
  /\ DictKeys(last.ca)[1] = "before"
  /\ LaterTag(last.ca)
  /\ ~last.a.ok
  /\ last.b.ok /\ DictKeys(last.cb)[1] = "before" /\ Attr(last.b.obj, "before") = Before[2]

\* the comment tree and the rendering of a triggered execute
Reported == last.op = "report" /\ last.action_data # NoOut
\* the lines a string is rendered as
Physical(x) == IF Len(splitlines(x)) = 0 THEN {""} ELSE {splitlines(x)[k] : k \in 1..Len(splitlines(x))}
\* the pairs <<h, x>> of a commented group's comment h and a string x of the
\* list of its children's comments, at every depth of a comment tree
RECURSIVE Levels(_)
Levels(comments) ==
  UNION {IF comments[i].t # "list" THEN {}
         ELSE Levels(comments[i].l) \cup
              (IF i > 1 /\ comments[i - 1].t = "str"
               THEN {<<comments[i - 1].s, comments[i].l[j].s>> :
                       j \in {k \in 1..Len(comments[i].l) : comments[i].l[k].t = "str"}}
               ELSE {}) : i \in 1..Len(comments)}
\* the number of lines of the strings of a comment tree
RECURSIVE LineCount(_)
LineCount(comments) ==
  IF Len(comments) = 0 THEN 0
  ELSE (IF Head(comments).t = "str" THEN Cardinality(Physical(Head(comments).s))
        ELSE LineCount(Head(comments).l)) + LineCount(Tail(comments))
IndentsOf(lines, text) == {lines[k].indent : k \in {n \in 1..Len(lines) : lines[n].text = text}}

\* C31 as stated: in the rendering of a comment tree of nested commented
\* groups every line of a child's comment is indented one unit of two
\* spaces more than the lines of the comment of its group, and nothing
\* but the strings of the tree contributes a line
C31_IndentPerLevel ==
  Reported =>
    /\ \A p \in Levels(last.pout.comment) :
         \A h \in Physical(p[1]), x \in Physical(p[2]) :
           /\ IndentsOf(last.action_data.comment, h) # {}
           /\ IndentsOf(last.action_data.comment, x) # {}
           /\ \A a \in IndentsOf(last.action_data.comment, h),
                 b \in IndentsOf(last.action_data.comment, x) : b = a + 1
    /\ Len(last.action_data.comment) <= LineCount(last.pout.comment)

\* the process call on a root DataWatch whose run has completed
RanData ==
  /\ last.op = "process" /\ last.w.cls \in DataClasses
  /\ FirstAfter(0, "after", last.w.hash) > 0
  /\ log[FirstAfter(0, "after", last.w.hash)].out.kind = "ret"
\* the context run was entered with, the context it returned with, the items
\* it selected
RunEntry == last.snap[FirstAfter(0, "fetch", last.w.hash)]
RunExit == last.snap[FirstAfter(0, "after", last.w.hash)]
Selected ==
  VL(select_data(last.w, RunEntry,
                 fetch_data(last.w, [Starts EXCEPT !.ctx = RunEntry]).data).items)
\* get_variable answers the selected items under `data`, the hash and `store`
Retrievable(c) ==
  /\ get_variable(c, "data") = Selected
  /\ get_variable(c, last.w.hash) = Selected
  /\ Attr(last.w, "store").t # "none" => get_variable(c, Attr(last.w, "store").s) = Selected

NoChildren ==
  /\ last.op = "process" /\ last.w.cls \in MultipleClasses
  /\ FirstAfter(0, "run", last.w.hash) > 0
  /\ RootLoads = <<>>
  /\ last.out.kind = "ret"

\* C34: a MultipleWatch whose gen yields no watch does not trigger, whatever
\* its operator; a loop whose `loop` watch selects no items yields none, and
\* a conditional with an empty condition list yields its `else` branch if
\* it has one and nothing otherwise
C34_NoChildrenNoTrigger ==
  /\ NoChildren => last.out = NoTrigger
  /\ (last.op = "process" /\ last.w.cls = "loop" /\ last.out.kind = "ret"
      /\ get_variable(ctx, HashOf(Attr(last.w, "loop").d)) = VL(<<>>))
     => RootLoads = <<>> /\ ~last.out.trigger
  /\ (last.op = "process" /\ last.w.cls = "conditional"
      /\ Attr(last.w, "conditional") = VL(<<>>))
     => /\ RootCond > 0 /\ ~Triggered(log[RootCond].out)
        /\ Hashes(RootLoads) = IF Attr(last.w, "else").t # "none"
                               THEN <<HashOf(Attr(last.w, "else").d)>> ELSE <<>>
\* a loop under `all` over no items
C34_Witness ==
  /\ NoChildren
  /\ last.w.cls = "loop" /\ Attr(last.w, "operator").s \in OPERATOR_ALL
  /\ get_variable(ctx, HashOf(Attr(last.w, "loop").d)) = VL(<<>>)
  /\ last.out = NoTrigger

\* the `-executed` and `-triggered` entries of the root watch of `last`
ExecutedOf(c) == get_entry(c, last.w.hash \o "-executed")
TriggeredOf(c) == get_entry(c, last.w.hash \o "-triggered")
RootHashes == {HashOf(c) : c \in OrderRoots}

\* C35 as stated: every execute, failing ones included, has written
\* `<hash>-executed` when the first hook, fetch or child runs; whenever
\* `<hash>-triggered` is in the cache, `<hash>-executed` is and is not
\* before it; and `<hash>-triggered` is written only by an execute whose
\* process returned a trigger
C35_ExecutedFirst ==
  /\ last.op = "report" =>
       /\ Len(log) > 0 /\ log[1].e = "execute" /\ log[1].out = VI(last.starttime)
       /\ ExecutedOf(cache) = VI(last.starttime)
       /\ (last.pout.kind = "ret" /\ last.pout.trigger) \/ TriggeredOf(cache) = TriggeredOf(pre)
  /\ \A h \in RootHashes :
       has_entry(cache, h \o "-triggered") =>
         /\ has_entry(cache, h \o "-executed")
         /\ cache[h \o "-triggered"].i <= cache[h \o "-executed"].i

\* the keys a frame of the context holds
FrameKeys(c) == UNION {{c.frames[i].vars[k][1] : k \in 1..Len(c.frames[i].vars)} : i \in 1..Len(c.frames)}

\* C38: what a watch's process call pushed on its frame (its `hash`, a
\* selector's `store`, a loop's `index` and `<as>`) is gone when the call
\* has returned or raised: get_variable answers None for these names after
\* the call on the root, and every watch processed below it hands the
\* frames of its callers back with the variables they held when it was
\* entered, so that a sibling entered later finds none of them
C38_FrameVariablesGone ==
  last.op = "process" =>
    /\ \A key \in ScopeKeys : get_variable(ctx, key) = VNone
    /\ FrameKeys(ctx) = {}
    /\ \A i \in 1..Len(log) :
         log[i].e = "enter" =>
           LET x == FirstAfter(i, "exit", log[i].p)
               inside == last.snap[i].frames
           IN /\ x > 0
              /\ last.snap[x].frames = SubSeq(inside, 1, Len(inside) - 1)
\* a loop cut short left `index` on its frame, and the sibling entered after
\* it does not see it
C38_Witness ==
  /\ last.op = "process" /\ last.w.cls = "group"
  /\ \E i, j \in 1..Len(log) :
       /\ i < j
       /\ log[i].e = "after"
       /\ DictHas(last.snap[i].frames[Len(last.snap[i].frames)].vars, "index")
       /\ log[j].e = "enter" /\ Len(last.snap[j].frames) = 3
       /\ get_variable(last.snap[j], "index") = VNone
       /\ get_variable(last.snap[j], "loop") = VNone

\* a sub selector has been executed; the context it was executed in
SubRan == last.op = "select" /\ last.sel.cls = "sub" /\ last.ok
SubEntry ==
  IF Attr(last.sel, "store").t # "none" THEN pop_variable(ctx, Attr(last.sel, "store").s)
  ELSE ctx
\* the nested selectors of a sub selector executed as top-level selectors
\* are: one item through selector.execute of each in turn, from the k-th on
RECURSIVE ExecuteChain(_, _, _, _)
ExecuteChain(selectors, k, c, item) ==
  IF k > Len(selectors) THEN [ok |-> TRUE, items |-> item, ctx |-> c]
  ELSE Bind(Selector_execute(Load("selector", selectors[k].d).obj, c, item), LAMBDA r :
         IF ~r.ok THEN r ELSE ExecuteChain(selectors, k + 1, r.ctx, r.items))
RECURSIVE ExecuteEach(_, _, _, _)
ExecuteEach(selectors, items, c, _items) ==
  IF Len(items) = 0 THEN [ok |-> TRUE, items |-> _items, ctx |-> c]
  ELSE Bind(ExecuteChain(selectors, 1, c, <<Head(items)>>), LAMBDA r :
         IF ~r.ok THEN r ELSE ExecuteEach(selectors, Tail(items), r.ctx, _items \o r.items))

\* C39 as stated: the selectors nested in a `sub` selector honour `store`
\* and `input` as top-level selectors do: the sub selector gives what it
\* would give with each nested selector executed (a `store` result pushed
\* under its name and the input passed on, an `input` variable read in
\* place of the current items), and leaves the context so
C39_NestedHonoursStoreInput ==
  SubRan =>
    Bind(ExecuteEach(Attr(last.sel, "value").l,
                     SelectorInput(last.sel, SubEntry, last.items), SubEntry, <<>>), LAMBDA e :
      /\ e.ok
      /\ last.results = e.items
      /\ SubEntry = e.ctx)


\* C40 as stated: two loads of one class whose coerced fields differ
\* outside hash_skip, in the structure of a list or in the type of a
\* scalar, have different hashes
C40_SerializationInjective ==
  (/\ BothLoaded
   /\ last.a.obj.cls = last.b.obj.cls
   /\ Strip(VD(last.a.obj.f), HashSkip("watch")) # Strip(VD(last.b.obj.f), HashSkip("watch")))
    => last.a.obj.hash # last.b.obj.hash
====
